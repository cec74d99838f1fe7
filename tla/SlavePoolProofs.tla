-------------------------- MODULE SlavePoolProofs ---------------------------
(***************************************************************************)
(* Proofs about SlavePool, for any slaves, timeout, limit of failures and  *)
(* number of restarts, and about Selection, for any lists of slaves, any   *)
(* numbers of workers, weights and filters.                                *)
(*                                                                         *)
(* Selection computes with sums and with sequences made of sequences:      *)
(* CountsUp is the induction on their length.                              *)
(***************************************************************************)
EXTENDS SlaveChoice, SequenceTheorems, FiniteSetTheorems, WellFoundedInduction, TLAPS

\* The helpers are abbreviations and expanded everywhere.
USE DEF masterVars, slaveVars, callVars, Registered, SetEntry, UpdateEntry, Call,
        Process, CountFailure, Reported
-----------------------------------------------------------------------------
(* Types.                                                                  *)

LEMMA TypeInit == Init => TypeOK
BY SlavePoolAssumption DEF Init, TypeOK

LEMMA TypeOfRegistration ==
  ASSUME TypeOK, NEW s \in Slaves,
         Start(s) \/ Refuse(s) \/ Admit(s) \/ Store(s) \/ Unregister(s) \/ Exit(s)
  PROVE  TypeOK'
<1>1. CASE Start(s)      BY <1>1 DEF TypeOK, Start
<1>2. CASE Refuse(s)     BY <1>2 DEF TypeOK, Refuse
<1>3. CASE Admit(s)      BY <1>3 DEF TypeOK, Admit
<1>4. CASE Store(s)      BY <1>4, SlavePoolAssumption DEF TypeOK, Store, Detach
<1>5. CASE Unregister(s) BY <1>5 DEF TypeOK, Unregister, Detach
<1>6. CASE Exit(s)       BY <1>6 DEF TypeOK, Exit, MayLose
<1>7. QED BY <1>1, <1>2, <1>3, <1>4, <1>5, <1>6

LEMMA TypeOfHeartbeat ==
  ASSUME TypeOK, NEW s \in Slaves,
         Beat(s) \/ UpdateHeartbeat(s) \/ UpdateState(s) \/ Reject(s)
  PROVE  TypeOK'
<1>1. CASE Beat(s)            BY <1>1 DEF TypeOK, Beat
<1>2. CASE UpdateHeartbeat(s) BY <1>2, SlavePoolAssumption DEF TypeOK, UpdateHeartbeat
<1>3. CASE UpdateState(s)     BY <1>3 DEF TypeOK, UpdateState
<1>4. CASE Reject(s)          BY <1>4 DEF TypeOK, Reject
<1>5. QED BY <1>1, <1>2, <1>3, <1>4

LEMMA TypeOfCheck ==
  ASSUME TypeOK, NEW s \in Slaves, Examine(s)
  PROVE  TypeOK'
<1>1. CASE CheckSlave(s)    BY <1>1 DEF TypeOK, CheckSlave
<1>2. CASE HandleFailure(s) BY <1>2, SlavePoolAssumption DEF TypeOK, HandleFailure
<1>3. CASE HandleSuccess(s) BY <1>3, SlavePoolAssumption DEF TypeOK, HandleSuccess
<1>4. QED BY <1>1, <1>2, <1>3 DEF Examine

LEMMA TypeOfTask ==
  ASSUME TypeOK, NEW s \in Slaves, Select(s) \/ Dispatch(s) \/ EndRun(s)
  PROVE  TypeOK'
<1>1. CASE Select(s)      BY <1>1 DEF TypeOK, Select
<1>2. CASE ExecuteTask(s) BY <1>2 DEF TypeOK, ExecuteTask
<1>3. CASE AddTask(s)     BY <1>3 DEF TypeOK, AddTask
<1>4. CASE EndRun(s)      BY <1>4 DEF TypeOK, EndRun
<1>5. QED BY <1>1, <1>2, <1>3, <1>4 DEF Dispatch

LEMMA TypeStep == TypeOK /\ [Next]_vars => TypeOK'
<1> SUFFICES ASSUME TypeOK, [Next]_vars PROVE TypeOK'
  OBVIOUS
<1>1. CASE Round
  BY <1>1, SlavePoolAssumption DEF TypeOK, Round, Late
<1>2. CASE MasterRestart
  BY <1>2, SlavePoolAssumption DEF TypeOK, MasterRestart
<1>3. CASE UNCHANGED vars
  BY <1>3 DEF TypeOK, vars
<1>4. QED
  BY <1>1, <1>2, <1>3, TypeOfRegistration, TypeOfHeartbeat, TypeOfCheck, TypeOfTask
     DEF Next, Handle

\* Every handler, ticker and fault keeps the types of the pool, the checker
\* and the slaves.
THEOREM PoolTypeCorrect == Spec => []TypeOK
BY TypeInit, TypeStep, PTL DEF Spec
-----------------------------------------------------------------------------
(* Why an entry is in error.  The property is inductive, given the types.  *)

Cause(s) ==
  entry[s] = "error" /\ process[s] = "up" /\ call[s] \notin {"beat", "beaten"} =>
    failureCount[s] = MaxFailures \/ status[s] = "error"

\* Registration: a new entry is idle, and a process that is up had one before.
LEMMA CauseOfRegistration ==
  ASSUME TypeOK, ErrorHasCause, NEW s \in Slaves, NEW r \in Slaves,
         Start(s) \/ Refuse(s) \/ Admit(s) \/ Store(s) \/ Unregister(s) \/ Exit(s)
  PROVE  Cause(r)'
<1> USE DEF TypeOK, ErrorHasCause, Cause
<1>1. CASE Start(s)      BY <1>1 DEF Start
<1>2. CASE Refuse(s)     BY <1>2 DEF Refuse
<1>3. CASE Admit(s)      BY <1>3 DEF Admit
<1>4. CASE Store(s)      BY <1>4 DEF Store
<1>5. CASE Unregister(s) BY <1>5 DEF Unregister
<1>6. CASE Exit(s)       BY <1>6 DEF Exit, MayLose
<1>7. QED BY <1>1, <1>2, <1>3, <1>4, <1>5, <1>6

LEMMA CauseOfHeartbeat ==
  ASSUME TypeOK, ErrorHasCause, NEW s \in Slaves, NEW r \in Slaves,
         Beat(s) \/ UpdateHeartbeat(s) \/ UpdateState(s) \/ Reject(s)
  PROVE  Cause(r)'
<1> USE DEF TypeOK, ErrorHasCause, Cause
<1>1. CASE Beat(s)            BY <1>1 DEF Beat
<1>2. CASE UpdateHeartbeat(s) BY <1>2 DEF UpdateHeartbeat
<1>3. CASE UpdateState(s)     BY <1>3 DEF UpdateState
<1>4. CASE Reject(s)          BY <1>4 DEF Reject
<1>5. QED BY <1>1, <1>2, <1>3, <1>4

\* A count that reached the limit stays there until HandleSuccess resets it,
\* and then the entry is well again.
LEMMA CauseOfCheck ==
  ASSUME TypeOK, ErrorHasCause, NEW s \in Slaves, NEW r \in Slaves, Examine(s)
  PROVE  Cause(r)'
<1> USE SlavePoolAssumption DEF TypeOK, ErrorHasCause, Cause
<1>1. CASE CheckSlave(s)    BY <1>1 DEF CheckSlave
<1>2. CASE HandleFailure(s) BY <1>2 DEF HandleFailure
<1>3. CASE HandleSuccess(s) BY <1>3 DEF HandleSuccess
<1>4. QED BY <1>1, <1>2, <1>3 DEF Examine

LEMMA CauseOfTask ==
  ASSUME TypeOK, ErrorHasCause, NEW s \in Slaves, NEW r \in Slaves,
         Select(s) \/ Dispatch(s) \/ EndRun(s)
  PROVE  Cause(r)'
<1> USE DEF TypeOK, ErrorHasCause, Cause
<1>1. CASE Select(s)      BY <1>1 DEF Select
<1>2. CASE ExecuteTask(s) BY <1>2 DEF ExecuteTask
<1>3. CASE AddTask(s)     BY <1>3 DEF AddTask
<1>4. CASE EndRun(s)      BY <1>4 DEF EndRun
<1>5. QED BY <1>1, <1>2, <1>3, <1>4 DEF Dispatch

LEMMA CauseStep == TypeOK /\ ErrorHasCause /\ [Next]_vars => ErrorHasCause'
<1> SUFFICES ASSUME TypeOK, ErrorHasCause, [Next]_vars, NEW r \in Slaves
             PROVE  Cause(r)'
  BY DEF ErrorHasCause, Cause
<1>1. CASE Round
  BY <1>1 DEF Round, ErrorHasCause, Cause
<1>2. CASE MasterRestart
  BY <1>2 DEF MasterRestart, Cause
<1>3. CASE UNCHANGED vars
  BY <1>3 DEF vars, ErrorHasCause, Cause
<1>4. QED
  BY <1>1, <1>2, <1>3, CauseOfRegistration, CauseOfHeartbeat, CauseOfCheck, CauseOfTask
     DEF Next, Handle

\* A slave that is up is shut out for a reason only: enough rounds found it
\* late, or its own last heartbeat said so.
THEOREM ErrorHasCauseAlways == Spec => []ErrorHasCause
<1>1. Init => ErrorHasCause
  BY DEF Init, ErrorHasCause
<1>2. QED BY <1>1, TypeInit, TypeStep, CauseStep, PTL DEF Spec
-----------------------------------------------------------------------------
(* Induction, and what the provers need to know of the libraries.          *)

\* Every set of numbers has a least one.
LEMMA NatLeast == \A T \in SUBSET Nat : T # {} => \E m \in T : \A k \in T : m <= k
<1>1. IsWellFoundedOn(OpToRel(<, Nat), Nat)
  BY NatLessThanWellFounded
<1>2. \A x, y \in Nat : <<y, x>> \in OpToRel(<, Nat) <=> y < x
  BY DEF OpToRel
<1>3. ASSUME NEW T \in SUBSET Nat, T # {} PROVE \E m \in T : \A k \in T : m <= k
  <2>1. PICK m \in T : \A k \in T : ~(<<k, m>> \in OpToRel(<, Nat))
    BY <1>1, <1>3, WFMin
  <2>2. \A k \in T : ~(k < m)
    BY <1>2, <2>1
  <2> QED BY <2>2
<1> QED BY <1>3

\* The cardinalities of Selection are those of the library.
LEMMA SameCardinality == \A T : S!Cardinality(T) = Cardinality(T)
BY DEF S!Cardinality, Cardinality

\* The smaller of two numbers.
LEMMA MinOfTwo ==
  ASSUME NEW a \in Int, NEW b \in Int
  PROVE  S!Min({a, b}) = IF a <= b THEN a ELSE b
<1>1. S!Min({a, b}) \in {a, b} /\ \A y \in {a, b} : S!Min({a, b}) <= y
  BY DEF S!Min
<1> QED BY <1>1

LEMMA MaxOfTwo ==
  ASSUME NEW a \in Int, NEW b \in Int
  PROVE  S!Max({a, b}) = IF a >= b THEN a ELSE b
<1>1. S!Max({a, b}) \in {a, b} /\ \A y \in {a, b} : S!Max({a, b}) >= y
  BY DEF S!Max
<1> QED BY <1>1

\* A set that holds 0, and with a number the next one up to n, holds all of them.
LEMMA CountsUp ==
  ASSUME NEW n \in Nat, NEW T, 0 \in T, \A i \in 1 .. n : i - 1 \in T => i \in T
  PROVE  \A i \in 0 .. n : i \in T
<1> DEFINE Bad == {i \in 0 .. n : i \notin T}
<1>1. SUFFICES ASSUME Bad # {} PROVE FALSE
  OBVIOUS
<1>2. Bad \in SUBSET Nat
  OBVIOUS
<1> HIDE DEF Bad
<1>3. PICK m \in Bad : \A k \in Bad : m <= k
  BY <1>1, <1>2, NatLeast
<1>4. m \in 0 .. n /\ m \notin T
  BY <1>3 DEF Bad
<1>5. m \in 1 .. n /\ m - 1 \in 0 .. n /\ m - 1 \notin Bad
  BY <1>2, <1>3, <1>4
<1>6. m - 1 \in T
  BY <1>5 DEF Bad
<1> QED BY <1>4, <1>5, <1>6

-----------------------------------------------------------------------------
(* Sums.                                                                   *)

\* The sums of the first numbers of a list.
Sums(numbers, sum) ==
  /\ sum \in [0 .. Len(numbers) -> Int] /\ sum[0] = 0
  /\ \A i \in 1 .. Len(numbers) : sum[i] = sum[i - 1] + numbers[i]

LEMMA SumIs ==
  ASSUME NEW numbers \in Seq(Int)
  PROVE  \E sum : Sums(numbers, sum) /\ S!Sum(numbers) = sum[Len(numbers)]
<1> DEFINE n == Len(numbers)
           Fits(f, m) == f \in [0 .. m -> Int] /\ f[0] = 0 /\ \A i \in 1 .. m : f[i] = f[i - 1] + numbers[i]
           Defined == {m \in 0 .. n : \E f : Fits(f, m)}
           Rec(f) == [i \in 0 .. n |-> IF i = 0 THEN 0 ELSE f[i - 1] + numbers[i]]
           sum == CHOOSE f : f = Rec(f)
           Right(g) == {i \in 0 .. n : sum[i] = g[i]}
<1>1. n \in Nat /\ \A i \in 1 .. n : numbers[i] \in Int
  OBVIOUS
<1>2. \A m \in 0 .. n : m \in Defined
  <2>1. 0 \in Defined
    <3>1. Fits([i \in 0 .. 0 |-> 0], 0)
      OBVIOUS
    <3> HIDE DEF Fits
    <3> QED BY <1>1, <3>1
  <2>2. ASSUME NEW m \in 1 .. n, m - 1 \in Defined PROVE m \in Defined
    <3>1. PICK g : Fits(g, m - 1)
      <4> HIDE DEF Fits
      <4> QED BY <2>2
    <3> DEFINE f == [i \in 0 .. m |-> IF i = m THEN g[m - 1] + numbers[m] ELSE g[i]]
    <3>2. f \in [0 .. m -> Int] /\ f[0] = 0
      BY <1>1, <3>1
    <3>3. ASSUME NEW i \in 1 .. m PROVE f[i] = f[i - 1] + numbers[i]
      BY <1>1, <3>1
    <3> HIDE DEF f
    <3>4. Fits(f, m)
      BY <3>2, <3>3
    <3>5. m \in 0 .. n
      BY <1>1
    <3> HIDE DEF Fits
    <3> QED BY <3>4, <3>5
  <2> HIDE DEF Defined
  <2> QED BY <1>1, <2>1, <2>2, CountsUp
<1>3. PICK g : Fits(g, n)
  <2>1. n \in 0 .. n
    BY <1>1
  <2> HIDE DEF Fits
  <2> QED BY <1>2, <2>1
<1>4. g = Rec(g)
  BY <1>1, <1>3
<1>5. sum = Rec(sum)
  <2> HIDE DEF Rec
  <2> QED BY <1>4
<1>6. S!Sum(numbers) = sum[n]
  BY DEF S!Sum
<1> HIDE DEF sum
<1>7. \A i \in 0 .. n : i \in Right(g)
  <2>1. 0 \in Right(g)
    BY <1>1, <1>3, <1>5
  <2>2. ASSUME NEW m \in 1 .. n, m - 1 \in Right(g) PROVE m \in Right(g)
    <3>1. sum[m] = sum[m - 1] + numbers[m]
      BY <1>1, <1>5
    <3>2. g[m] = g[m - 1] + numbers[m]
      BY <1>1, <1>3
    <3>3. m \in 0 .. n
      BY <1>1
    <3> QED BY <2>2, <3>1, <3>2, <3>3
  <2> HIDE DEF Right
  <2> QED BY <1>1, <2>1, <2>2, CountsUp
<1>8. sum[n] = g[n]
  BY <1>1, <1>7
<1> QED BY <1>1, <1>3, <1>6, <1>8 DEF Sums

\* The sums of a list are those of its prefixes too.
LEMMA SumsOfPrefixes ==
  ASSUME NEW numbers \in Seq(Int), NEW sum, Sums(numbers, sum), NEW m \in 0 .. Len(numbers)
  PROVE  S!Sum(SubSeq(numbers, 1, m)) = sum[m]
<1> DEFINE prefix == SubSeq(numbers, 1, m)
<1>1. prefix \in Seq(Int) /\ Len(prefix) = m /\ \A i \in 1 .. m : prefix[i] = numbers[i]
  OBVIOUS
<1> HIDE DEF prefix
<1>2. PICK g : Sums(prefix, g) /\ S!Sum(prefix) = g[m]
  BY <1>1, SumIs
<1> DEFINE Right == {i \in 0 .. m : g[i] = sum[i]}
<1>3. \A i \in 0 .. m : i \in Right
  <2>1. m \in Nat /\ m <= Len(numbers)
    OBVIOUS
  <2>2. 0 \in Right
    BY <1>1, <1>2, <2>1 DEF Sums
  <2>3. ASSUME NEW i \in 1 .. m, i - 1 \in Right PROVE i \in Right
    <3>1. i \in 1 .. Len(numbers) /\ i \in 0 .. m
      BY <2>1
    <3>2. g[i] = g[i - 1] + prefix[i] /\ sum[i] = sum[i - 1] + numbers[i] /\ prefix[i] = numbers[i]
      BY <1>1, <1>2, <3>1 DEF Sums
    <3> QED BY <2>3, <3>1, <3>2
  <2> HIDE DEF Right
  <2> QED BY <2>1, <2>2, <2>3, CountsUp
<1> QED BY <1>2, <1>3 DEF prefix

\* The sum of a list that is one longer.
LEMMA SumOfAppend ==
  ASSUME NEW numbers \in Seq(Int), NEW x \in Int
  PROVE  S!Sum(numbers) \in Int /\ S!Sum(Append(numbers, x)) = S!Sum(numbers) + x
<1> DEFINE n == Len(numbers)
           more == Append(numbers, x)
<1>1. /\ n \in Nat /\ more \in Seq(Int) /\ Len(more) = n + 1 /\ more[n + 1] = x
      /\ SubSeq(more, 1, n) = numbers
  OBVIOUS
<1> HIDE DEF n, more
<1>2. PICK sum : Sums(more, sum) /\ S!Sum(more) = sum[n + 1]
  BY <1>1, SumIs
<1>3. S!Sum(numbers) = sum[n]
  <2>1. n \in 0 .. Len(more)
    BY <1>1
  <2>2. S!Sum(SubSeq(more, 1, n)) = sum[n]
    BY <1>1, <1>2, <2>1, SumsOfPrefixes
  <2> QED BY <1>1, <2>2
<1>4. sum[n] \in Int /\ sum[n + 1] = sum[n] + x
  <2>1. n \in 0 .. Len(more) /\ n + 1 \in 1 .. Len(more) /\ (n + 1) - 1 = n
    BY <1>1
  <2> QED BY <1>1, <1>2, <2>1 DEF Sums
<1> QED BY <1>2, <1>3, <1>4 DEF more

LEMMA SumOfNothing == S!Sum(<< >>) = 0
<1>1. << >> \in Seq(Int) /\ Len(<< >>) = 0
  OBVIOUS
<1>2. PICK sum : Sums(<< >>, sum) /\ S!Sum(<< >>) = sum[0]
  BY <1>1, SumIs
<1> QED BY <1>2 DEF Sums

-----------------------------------------------------------------------------
(* Sequences of sequences, in one.                                         *)

\* What the first of them make.
Flat(seqs, flat, T) ==
  /\ flat \in [0 .. Len(seqs) -> Seq(T)] /\ flat[0] = << >>
  /\ \A i \in 1 .. Len(seqs) : flat[i] = flat[i - 1] \o seqs[i]

LEMMA FlattenIs ==
  ASSUME NEW T, NEW seqs \in Seq(Seq(T))
  PROVE  \E flat : Flat(seqs, flat, T) /\ S!FlattenSeq(seqs) = flat[Len(seqs)]
<1> DEFINE n == Len(seqs)
           Fits(f, m) == f \in [0 .. m -> Seq(T)] /\ f[0] = << >> /\ \A i \in 1 .. m : f[i] = f[i - 1] \o seqs[i]
           Defined == {m \in 0 .. n : \E f : Fits(f, m)}
           Rec(f) == [i \in 1 .. n |-> IF i = 1 THEN seqs[i] ELSE f[i - 1] \o seqs[i]]
           flatten == CHOOSE f : f = Rec(f)
<1>1. n \in Nat /\ \A i \in 1 .. n : seqs[i] \in Seq(T)
  OBVIOUS
<1>2. \A m \in 0 .. n : m \in Defined
  <2>1. 0 \in Defined
    <3>1. Fits([i \in 0 .. 0 |-> << >>], 0)
      OBVIOUS
    <3> HIDE DEF Fits
    <3> QED BY <1>1, <3>1
  <2>2. ASSUME NEW m \in 1 .. n, m - 1 \in Defined PROVE m \in Defined
    <3>1. PICK g : Fits(g, m - 1)
      <4> HIDE DEF Fits
      <4> QED BY <2>2
    <3> DEFINE f == [i \in 0 .. m |-> IF i = m THEN g[m - 1] \o seqs[m] ELSE g[i]]
    <3>2. f \in [0 .. m -> Seq(T)] /\ f[0] = << >>
      <4>1. g[m - 1] \in Seq(T) /\ seqs[m] \in Seq(T)
        BY <1>1, <3>1
      <4>2. g[m - 1] \o seqs[m] \in Seq(T)
        BY <4>1
      <4> QED BY <1>1, <3>1, <4>2
    <3>3. ASSUME NEW i \in 1 .. m PROVE f[i] = f[i - 1] \o seqs[i]
      <4>1. i \in 0 .. m /\ i - 1 \in 0 .. m /\ i - 1 # m /\ (i # m => i \in 1 .. m - 1)
        BY <1>1
      <4>2. f[i - 1] = g[i - 1] /\ (i # m => f[i] = g[i]) /\ (i = m => f[i] = g[m - 1] \o seqs[m])
        BY <4>1
      <4>3. i # m => g[i] = g[i - 1] \o seqs[i]
        BY <3>1, <4>1
      <4> QED BY <4>2, <4>3
    <3> HIDE DEF f
    <3>4. Fits(f, m)
      BY <3>2, <3>3
    <3>5. m \in 0 .. n
      BY <1>1
    <3> HIDE DEF Fits
    <3> QED BY <3>4, <3>5
  <2> HIDE DEF Defined
  <2> QED BY <1>1, <2>1, <2>2, CountsUp
<1>3. PICK g : Fits(g, n)
  <2>1. n \in 0 .. n
    BY <1>1
  <2> HIDE DEF Fits
  <2> QED BY <1>2, <2>1
<1>4. Flat(seqs, g, T)
  BY <1>3 DEF Flat
<1>5. CASE n = 0
  <2>1. S!FlattenSeq(seqs) = seqs /\ seqs = << >>
    BY <1>5 DEF S!FlattenSeq
  <2> QED BY <1>3, <1>4, <1>5, <2>1
<1>6. CASE n # 0
  <2> DEFINE h == [i \in 1 .. n |-> g[i]]
  <2>1. \A i \in 1 .. n : g[i] = IF i = 1 THEN seqs[i] ELSE g[i - 1] \o seqs[i]
    <3>1. g[0] = << >> /\ seqs[1] \in Seq(T) /\ << >> \o seqs[1] = seqs[1]
      BY <1>1, <1>3, <1>6
    <3>2. \A i \in 1 .. n : g[i] = g[i - 1] \o seqs[i]
      BY <1>3
    <3>3. ASSUME NEW i \in 1 .. n PROVE g[i] = IF i = 1 THEN seqs[i] ELSE g[i - 1] \o seqs[i]
      <4>1. g[i] = g[i - 1] \o seqs[i]
        BY <3>2
      <4>2. i = 1 => i - 1 = 0
        OBVIOUS
      <4> QED BY <3>1, <4>1, <4>2
    <3> QED BY <3>3
  <2>2. \A i \in 1 .. n : g[i] = IF i = 1 THEN seqs[i] ELSE h[i - 1] \o seqs[i]
    BY <1>1, <2>1
  <2>3. h = Rec(h)
    BY <2>2
  <2>4. flatten = Rec(flatten)
    <3> HIDE DEF Rec
    <3> QED BY <2>3
  <2>5. S!FlattenSeq(seqs) = flatten[n]
    BY <1>6 DEF S!FlattenSeq
  <2> DEFINE Right == {i \in 0 .. n : i > 0 => flatten[i] = g[i]}
  <2> HIDE DEF flatten
  <2>6. \A i \in 0 .. n : i \in Right
    <3>1. 0 \in Right
      BY <1>1
    <3>2. ASSUME NEW i \in 1 .. n, i - 1 \in Right PROVE i \in Right
      <4>1. flatten[i] = IF i = 1 THEN seqs[i] ELSE flatten[i - 1] \o seqs[i]
        BY <2>4
      <4>2. i # 1 => flatten[i - 1] = g[i - 1]
        BY <3>2
      <4>3. i \in 0 .. n
        BY <1>1
      <4> QED BY <2>1, <4>1, <4>2, <4>3
    <3> HIDE DEF Right
    <3> QED BY <1>1, <3>1, <3>2, CountsUp
  <2>7. flatten[n] = g[n]
    BY <1>1, <1>6, <2>6
  <2> QED BY <1>4, <2>5, <2>7
<1> QED BY <1>5, <1>6

-----------------------------------------------------------------------------
(* Lists of different slaves.                                              *)

\* A list of a set's elements, none of them twice.
Distinct(list, T) ==
  /\ list \in Seq(T)
  /\ \A i, j \in 1 .. Len(list) : list[i] = list[j] => i = j

Elements(list) == {list[i] : i \in 1 .. Len(list)}

LEMMA ElementsAre ==
  ASSUME NEW T, NEW list \in Seq(T)
  PROVE  S!ToSet(list) = Elements(list) /\ DOMAIN list = 1 .. Len(list)
BY DEF S!ToSet, Elements

\* It is as long as it has elements.
LEMMA DistinctLength ==
  ASSUME NEW T, NEW list, Distinct(list, T)
  PROVE  IsFiniteSet(Elements(list)) /\ Cardinality(Elements(list)) = Len(list)
<1> DEFINE n == Len(list)
           f == [i \in 1 .. n |-> list[i]]
<1>1. n \in Nat /\ \A i, j \in 1 .. n : list[i] = list[j] => i = j
  BY DEF Distinct
<1>2. f \in [1 .. n -> Elements(list)] /\ \A x \in Elements(list) : \E i \in 1 .. n : f[i] = x
  BY DEF Elements
<1>3. \A i, j \in 1 .. n : f[i] = f[j] => i = j
  BY <1>1
<1> HIDE DEF f
<1>4. f \in Bijection(1 .. n, Elements(list))
  BY <1>2, <1>3 DEF Bijection, Injection, Surjection, IsInjective
<1>5. ExistsBijection(1 .. n, Elements(list))
  BY <1>4 DEF ExistsBijection
<1> QED BY <1>1, <1>5, FS_CountingElements, FS_NatBijection

\* Two lists of the same elements are equally long, and one of fewer is shorter.
LEMMA SameLength ==
  ASSUME NEW T, NEW a, NEW b, Distinct(a, T), Distinct(b, T), Elements(a) \subseteq Elements(b)
  PROVE  Len(a) <= Len(b) /\ (Elements(a) = Elements(b) => Len(a) = Len(b))
<1>1. /\ IsFiniteSet(Elements(a)) /\ Cardinality(Elements(a)) = Len(a)
      /\ IsFiniteSet(Elements(b)) /\ Cardinality(Elements(b)) = Len(b)
  BY DistinctLength
<1> QED BY <1>1, FS_Subset

\* Two lists with nothing in common, one after the other.
Apart(a, b) == Elements(a) \cap Elements(b) = {}
HoldsBoth(list, a, b, T) == Distinct(list, T) /\ Elements(list) = Elements(a) \cup Elements(b)

LEMMA ConcatIsDistinct ==
  ASSUME NEW T, NEW a, NEW b, Distinct(a, T), Distinct(b, T), Apart(a, b)
  PROVE  HoldsBoth(a \o b, a, b, T)
<1> DEFINE m == Len(a)
           n == Len(b)
           c == a \o b
<1>1. m \in Nat /\ n \in Nat /\ a \in Seq(T) /\ b \in Seq(T)
  BY DEF Distinct
<1>2. /\ c \in Seq(T) /\ Len(c) = m + n
      /\ \A i \in 1 .. m + n : c[i] = IF i <= m THEN a[i] ELSE b[i - m]
  BY <1>1
<1> HIDE DEF c
<1>3. ASSUME NEW i \in 1 .. m + n, NEW j \in 1 .. m + n, c[i] = c[j] PROVE i = j
  <2>1. CASE i <= m /\ j <= m
    BY <1>1, <1>2, <1>3, <2>1 DEF Distinct
  <2>2. CASE i > m /\ j > m
    <3>1. i - m \in 1 .. n /\ j - m \in 1 .. n /\ b[i - m] = b[j - m]
      BY <1>1, <1>2, <1>3, <2>2
    <3> QED BY <1>1, <3>1 DEF Distinct
  <2>3. CASE i <= m /\ j > m
    <3>1. i \in 1 .. m /\ j - m \in 1 .. n /\ a[i] = b[j - m]
      BY <1>1, <1>2, <1>3, <2>3
    <3> QED BY <3>1 DEF Apart, Elements
  <2>4. CASE i > m /\ j <= m
    <3>1. j \in 1 .. m /\ i - m \in 1 .. n /\ a[j] = b[i - m]
      BY <1>1, <1>2, <1>3, <2>4
    <3> QED BY <3>1 DEF Apart, Elements
  <2> QED BY <1>1, <2>1, <2>2, <2>3, <2>4
<1>4. \A x : x \in Elements(c) <=> x \in Elements(a) \/ x \in Elements(b)
  <2>1. ASSUME NEW i \in 1 .. m PROVE a[i] \in Elements(c)
    <3>1. i \in 1 .. Len(c) /\ c[i] = a[i]
      BY <1>1, <1>2
    <3> QED BY <3>1 DEF Apart, Elements
  <2>2. ASSUME NEW i \in 1 .. n PROVE b[i] \in Elements(c)
    <3>1. m + i \in 1 .. m + n /\ ~(m + i <= m) /\ (m + i) - m = i
      BY <1>1
    <3>2. c[m + i] = b[i]
      BY <1>2, <3>1
    <3> QED BY <1>2, <3>1, <3>2 DEF Elements
  <2>3. ASSUME NEW i \in 1 .. Len(c) PROVE c[i] \in Elements(a) \/ c[i] \in Elements(b)
    <3>1. CASE i <= m
      BY <1>1, <1>2, <3>1 DEF Elements
    <3>2. CASE i > m
      <4>1. i - m \in 1 .. n /\ c[i] = b[i - m]
        BY <1>1, <1>2, <3>2
      <4> QED BY <4>1 DEF Elements
    <3> QED BY <1>1, <1>2, <3>1, <3>2
  <2> QED BY <2>1, <2>2, <2>3 DEF Elements
<1> QED BY <1>2, <1>3, <1>4 DEF Distinct, HoldsBoth, c

\* The first of a list.
LEMMA FirstAreDistinct ==
  ASSUME NEW T, NEW list, Distinct(list, T), NEW count \in 0 .. Len(list)
  PROVE  /\ Distinct(SubSeq(list, 1, count), T) /\ Len(SubSeq(list, 1, count)) = count
         /\ Elements(SubSeq(list, 1, count)) = {list[i] : i \in 1 .. count}
         /\ Elements(SubSeq(list, 1, count)) \subseteq Elements(list)
<1> DEFINE first == SubSeq(list, 1, count)
<1>1. list \in Seq(T) /\ Len(list) \in Nat /\ count \in Nat /\ count <= Len(list)
  BY DEF Distinct
<1>2. first \in Seq(T) /\ Len(first) = count /\ \A i \in 1 .. count : first[i] = list[i]
  BY <1>1
<1> HIDE DEF first
<1>3. \A i \in 1 .. count : i \in 1 .. Len(list)
  BY <1>1
<1> QED BY <1>2, <1>3 DEF Distinct, Elements, first

\* Keep leaves out those that are not in the set.
LEMMA KeepIs ==
  ASSUME NEW T, NEW list, Distinct(list, T), NEW set
  PROVE  /\ Distinct(S!Keep(list, set), T)
         /\ Elements(S!Keep(list, set)) = {x \in Elements(list) : x \in set}
<1> DEFINE n == Len(list)
           seqs == [i \in 1 .. n |-> IF list[i] \in set THEN <<list[i]>> ELSE << >>]
<1>1. n \in Nat /\ list \in Seq(T) /\ \A i \in 1 .. n : list[i] \in T
  BY DEF Distinct
<1>2. seqs \in Seq(Seq(T)) /\ Len(seqs) = n
  <2>1. ASSUME NEW i \in 1 .. n PROVE (IF list[i] \in set THEN <<list[i]>> ELSE << >>) \in Seq(T)
    BY <1>1
  <2> QED BY <1>1, <2>1
<1>3. S!Keep(list, set) = S!FlattenSeq(seqs)
  BY <1>1 DEF S!Keep
<1>4. \A i \in 1 .. n : seqs[i] = IF list[i] \in set THEN <<list[i]>> ELSE << >>
  OBVIOUS
<1> HIDE DEF seqs
<1>5. PICK flat : Flat(seqs, flat, T) /\ S!FlattenSeq(seqs) = flat[n]
  BY <1>2, FlattenIs
<1> DEFINE Kept(m) == {list[i] : i \in {k \in 1 .. m : list[k] \in set}}
           Right == {m \in 0 .. n : Distinct(flat[m], T) /\ Elements(flat[m]) = Kept(m)}
<1>6. 0 \in Right
  <2>1. Distinct(<< >>, T) /\ Elements(<< >>) = {}
    BY DEF Distinct, Elements
  <2>2. flat[0] = << >> /\ Kept(0) = {}
    BY <1>5 DEF Flat
  <2> QED BY <1>1, <2>1, <2>2
<1>7. ASSUME NEW m \in 1 .. n, m - 1 \in Right PROVE m \in Right
  <2> DEFINE old == flat[m - 1]
             x == list[m]
  <2>1. flat[m] = old \o seqs[m] /\ old \in Seq(T) /\ x \in T /\ m \in 0 .. n
    <3>1. m - 1 \in 0 .. n /\ m \in 0 .. n
      BY <1>1
    <3> QED BY <1>1, <1>2, <1>5, <3>1 DEF Flat
  <2>2. Distinct(old, T) /\ Elements(old) = Kept(m - 1)
    BY <1>7
  <2>3. CASE x \notin set
    <3>1. old \o << >> = old
      BY <2>1
    <3>2. flat[m] = old
      BY <1>4, <2>1, <2>3, <3>1
    <3>3. Kept(m) = Kept(m - 1)
      BY <1>1, <2>3
    <3> QED BY <2>1, <2>2, <3>2, <3>3
  <2>4. CASE x \in set
    <3>1. flat[m] = old \o <<x>>
      BY <1>4, <2>1, <2>4
    <3>2. Kept(m) = Kept(m - 1) \cup {x}
      BY <1>1, <2>4
    <3>3. x \notin Kept(m - 1)
      <4>1. ASSUME NEW k \in 1 .. m - 1 PROVE list[k] # x
        BY <1>1 DEF Distinct
      <4> QED BY <4>1
    <3>4. Distinct(<<x>>, T) /\ Elements(<<x>>) = {x}
      BY <2>1 DEF Distinct, Elements
    <3> HIDE DEF x, old, Kept
    <3>5. Distinct(old \o <<x>>, T) /\ Elements(old \o <<x>>) = Elements(old) \cup Elements(<<x>>)
      <4>1. Apart(old, <<x>>)
        BY <2>2, <3>3, <3>4 DEF Apart
      <4>2. HoldsBoth(old \o <<x>>, old, <<x>>, T)
        BY <2>2, <3>4, <4>1, ConcatIsDistinct
      <4> QED BY <4>2 DEF HoldsBoth
    <3> QED BY <2>1, <2>2, <3>1, <3>2, <3>4, <3>5
  <2> QED BY <2>3, <2>4
<1>8. n \in Right
  <2> HIDE DEF Right
  <2>1. \A m \in 0 .. n : m \in Right
    BY <1>1, <1>6, <1>7, CountsUp
  <2> QED BY <1>1, <2>1
<1>9. Kept(n) = {x \in Elements(list) : x \in set}
  BY DEF Elements
<1> HIDE DEF Kept
<1> QED BY <1>3, <1>5, <1>8, <1>9

-----------------------------------------------------------------------------
(* Parts of a task.                                                        *)

\* What the splitters promise of the parts.
Sound(parts, totalWorkers) ==
  /\ S!Workers(parts) = totalWorkers
  /\ \A i, j \in DOMAIN parts : parts[i].slave = parts[j].slave => i = j
  /\ \A i \in DOMAIN parts : parts[i].workers > 0

\* Slaves of different IDs.
Different(slaves) == \A i, j \in 1 .. Len(slaves) : slaves[i].id = slaves[j].id => i = j

\* The workers of a list that is one longer.
LEMMA WorkersOfAppend ==
  ASSUME NEW A, NEW parts \in Seq([slave : A, workers : Nat]), NEW part \in [slave : A, workers : Nat]
  PROVE  /\ S!Workers(parts) \in Int
         /\ S!Workers(Append(parts, part)) = S!Workers(parts) + part.workers
<1> DEFINE n == Len(parts)
           numbers == [i \in 1 .. n |-> parts[i].workers]
           more == Append(parts, part)
<1>1. n \in Nat /\ numbers \in Seq(Int) /\ Len(numbers) = n /\ DOMAIN parts = 1 .. n /\ part.workers \in Int
  <2> DEFINE P == [slave : A, workers : Nat]
  <2>1. \A p \in P : p.workers \in Int
    OBVIOUS
  <2>2. parts \in Seq(P) /\ part \in P
    OBVIOUS
  <2> HIDE DEF P
  <2>3. n \in Nat /\ DOMAIN parts = 1 .. n /\ \A i \in 1 .. n : parts[i] \in P
    BY <2>2
  <2>4. \A i \in 1 .. n : parts[i].workers \in Int
    BY <2>1, <2>3
  <2> QED BY <2>1, <2>2, <2>3, <2>4
<1>2. /\ DOMAIN more = 1 .. n + 1 /\ more[n + 1] = part
      /\ \A i \in 1 .. n : more[i] = parts[i]
  OBVIOUS
<1> HIDE DEF more
<1>3. [i \in 1 .. n + 1 |-> more[i].workers] = Append(numbers, part.workers)
  <2>1. Append(numbers, part.workers) = [i \in 1 .. n + 1 |-> IF i = n + 1 THEN part.workers ELSE numbers[i]]
    BY <1>1
  <2>2. \A i \in 1 .. n + 1 : more[i].workers = IF i = n + 1 THEN part.workers ELSE numbers[i]
    BY <1>1, <1>2
  <2> QED BY <2>1, <2>2
<1>4. S!Workers(parts) = S!Sum(numbers)
  BY <1>1 DEF S!Workers
<1>5. S!Workers(more) = S!Sum(Append(numbers, part.workers))
  BY <1>2, <1>3 DEF S!Workers
<1> HIDE DEF numbers
<1> QED BY <1>1, <1>4, <1>5, SumOfAppend DEF more

\* The parts give away the workers they were made of, each slave one part at most and no
\* part without workers.
LEMMA PartsAre ==
  ASSUME NEW T, NEW slaves \in Seq(T), Different(slaves),
         NEW workers \in [1 .. Len(slaves) -> Nat], NEW count \in 0 .. Len(slaves)
  PROVE  LET parts == S!Parts(slaves, workers)
         IN  /\ Sound(parts, S!Sum(workers))
             /\ \A k \in DOMAIN parts : \E i \in 1 .. Len(slaves) : parts[k].workers = workers[i]
             /\ (\A i \in 1 .. Len(slaves) : workers[i] > 0 <=> i <= count) => Len(parts) = count
<1> DEFINE n == Len(slaves)
           Names == {slaves[i].id : i \in 1 .. n}
           PartSet == [slave : Names, workers : Nat]
           seqs == [i \in 1 .. n |-> S!Part(slaves[i], workers[i])]
<1>1. n \in Nat /\ DOMAIN slaves = 1 .. n
  OBVIOUS
<1>2. \A i \in 1 .. n : seqs[i] = IF workers[i] = 0 THEN << >> ELSE <<[slave |-> slaves[i].id, workers |-> workers[i]]>>
  BY DEF S!Part
<1>3. \A i \in 1 .. n : slaves[i].id \in Names /\ workers[i] \in Nat
  OBVIOUS
<1>4. S!Parts(slaves, workers) = S!FlattenSeq(seqs)
  BY <1>1 DEF S!Parts
<1>5. seqs \in [1 .. n -> Seq(PartSet)] /\ DOMAIN seqs = 1 .. n
  <2> HIDE DEF Names
  <2>1. ASSUME NEW i \in 1 .. n PROVE S!Part(slaves[i], workers[i]) \in Seq(PartSet)
    <3> DEFINE part == [slave |-> slaves[i].id, workers |-> workers[i]]
    <3>1. part \in PartSet
      BY <1>3
    <3> HIDE DEF PartSet, part
    <3>2. <<part>> \in Seq(PartSet) /\ << >> \in Seq(PartSet)
      BY <3>1
    <3>3. S!Part(slaves[i], workers[i]) \in {<< >>, <<part>>}
      BY DEF S!Part, part
    <3> QED BY <3>2, <3>3
  <2> QED BY <2>1
<1> HIDE DEF seqs, Names
<1>6. seqs \in Seq(Seq(PartSet)) /\ Len(seqs) = n
  <2> HIDE DEF PartSet
  <2> QED BY <1>1, <1>5
<1>7. PICK flat : Flat(seqs, flat, PartSet) /\ S!FlattenSeq(seqs) = flat[n]
  BY <1>6, FlattenIs
<1>8. workers \in Seq(Int) /\ Len(workers) = n
  BY <1>1
<1>9. PICK sum : Sums(workers, sum) /\ S!Sum(workers) = sum[n]
  BY <1>8, SumIs
<1> DEFINE OneEach(parts) == \A k, l \in 1 .. Len(parts) : parts[k].slave = parts[l].slave => k = l
           FromFirst(parts, m) ==
             \A k \in 1 .. Len(parts) : \E i \in 1 .. m :
               parts[k].slave = slaves[i].id /\ parts[k].workers = workers[i] /\ workers[i] > 0
           Full == \A i \in 1 .. n : workers[i] > 0 <=> i <= count
           Right == {m \in 0 .. n :
                       /\ S!Workers(flat[m]) = sum[m]
                       /\ OneEach(flat[m]) /\ FromFirst(flat[m], m)
                       /\ Full => Len(flat[m]) = IF m <= count THEN m ELSE count}
<1>10. 0 \in Right
  <2>1. flat[0] = << >> /\ Len(<< >>) = 0
    BY <1>7 DEF Flat
  <2>2. sum[0] = 0 /\ S!Workers(<< >>) = 0
    <3>1. [i \in DOMAIN << >> |-> << >>[i].workers] = << >>
      OBVIOUS
    <3> QED BY <1>9, <3>1, SumOfNothing DEF Sums, S!Workers
  <2>3. 0 <= count
    BY <1>1
  <2> QED BY <1>1, <2>1, <2>2, <2>3
<1>11. ASSUME NEW m \in 1 .. n, m - 1 \in Right PROVE m \in Right
  <2> DEFINE old == flat[m - 1]
             part == [slave |-> slaves[m].id, workers |-> workers[m]]
  <2>1. /\ m - 1 \in 0 .. n /\ m \in 0 .. n /\ m \in Nat
        /\ old \in Seq(PartSet) /\ Len(old) \in Nat /\ flat[m] = old \o seqs[m]
    <3>1. m - 1 \in 0 .. n /\ m \in 0 .. n
      BY <1>1
    <3> HIDE DEF PartSet
    <3>2. old \in Seq(PartSet)
      BY <1>6, <1>7, <3>1 DEF Flat
    <3>3. flat[m] = old \o seqs[m]
      BY <1>6, <1>7, <3>1 DEF Flat
    <3> HIDE DEF old
    <3> QED BY <1>1, <3>1, <3>2, <3>3
  <2>2. sum[m] = sum[m - 1] + workers[m] /\ workers[m] \in Nat /\ sum[m - 1] \in Int
    BY <1>8, <1>9, <2>1 DEF Sums
  <2>3. /\ S!Workers(old) = sum[m - 1] /\ OneEach(old) /\ FromFirst(old, m - 1)
        /\ Full => Len(old) = IF m - 1 <= count THEN m - 1 ELSE count
    BY <1>11
  <2> HIDE DEF old
  <2>4. CASE workers[m] = 0
    <3>1. old \o << >> = old
      BY <2>1
    <3>2. flat[m] = old
      BY <1>2, <2>1, <2>4, <3>1
    <3>3. Full => ~(m <= count)
      BY <2>4
    <3>4. Full => Len(old) = IF m <= count THEN m ELSE count
      BY <1>1, <2>3, <3>3
    <3>5. FromFirst(old, m)
      BY <2>1, <2>3
    <3>6. S!Workers(old) = sum[m]
      BY <2>2, <2>3, <2>4
    <3> QED BY <2>1, <2>3, <3>2, <3>4, <3>5, <3>6
  <2>5. CASE workers[m] # 0
    <3>1. part \in PartSet
      BY <1>3
    <3>2. flat[m] = Append(old, part)
      <4>1. seqs[m] = <<part>>
        BY <1>2, <2>5
      <4> HIDE DEF part, PartSet
      <4>2. old \o <<part>> = Append(old, part)
        BY <2>1, <3>1
      <4> QED BY <2>1, <4>1, <4>2
    <3>3. /\ Len(flat[m]) = Len(old) + 1 /\ flat[m][Len(old) + 1] = part
          /\ \A k \in 1 .. Len(old) : flat[m][k] = old[k]
      BY <2>1, <3>1, <3>2
    <3>4. S!Workers(flat[m]) = sum[m]
      <4>1. part.workers = workers[m]
        OBVIOUS
      <4>2. S!Workers(Append(old, part)) = S!Workers(old) + part.workers
        BY <2>1, <3>1, WorkersOfAppend
      <4> HIDE DEF part
      <4> QED BY <2>2, <2>3, <3>2, <4>1, <4>2
    <3>5. OneEach(flat[m])
      <4>1. ASSUME NEW k \in 1 .. Len(old) PROVE old[k].slave # slaves[m].id
        <5>1. PICK i \in 1 .. m - 1 : old[k].slave = slaves[i].id
          BY <2>3
        <5>2. i \in 1 .. n /\ i # m
          BY <1>1, <2>1
        <5> QED BY <5>1, <5>2 DEF Different
      <4>2. part.slave = slaves[m].id
        OBVIOUS
      <4> HIDE DEF part
      <4>3. ASSUME NEW k \in 1 .. Len(flat[m]) PROVE k = Len(old) + 1 \/ k \in 1 .. Len(old)
        BY <2>1, <3>3
      <4>4. SUFFICES ASSUME NEW k \in 1 .. Len(flat[m]), NEW l \in 1 .. Len(flat[m]),
                            flat[m][k].slave = flat[m][l].slave
                     PROVE  k = l
        OBVIOUS
      <4>5. CASE k \in 1 .. Len(old) /\ l \in 1 .. Len(old)
        <5>1. old[k].slave = old[l].slave
          BY <3>3, <4>4, <4>5
        <5> QED BY <2>3, <4>5, <5>1
      <4>6. \A j \in 1 .. Len(old) : flat[m][j].slave # flat[m][Len(old) + 1].slave
        BY <3>3, <4>1, <4>2
      <4> QED BY <4>3, <4>4, <4>5, <4>6
    <3>6. FromFirst(flat[m], m)
      <4>1. ASSUME NEW k \in 1 .. Len(old)
            PROVE  \E i \in 1 .. m : flat[m][k].slave = slaves[i].id /\ flat[m][k].workers = workers[i] /\ workers[i] > 0
        <5>1. PICK i \in 1 .. m - 1 : old[k].slave = slaves[i].id /\ old[k].workers = workers[i] /\ workers[i] > 0
          BY <2>3
        <5>2. i \in 1 .. m
          BY <2>1
        <5> QED BY <3>3, <5>1, <5>2
      <4>2. part.slave = slaves[m].id /\ part.workers = workers[m] /\ workers[m] > 0 /\ m \in 1 .. m
        BY <2>1, <2>2, <2>5
      <4> HIDE DEF part
      <4>3. ASSUME NEW k \in 1 .. Len(old) + 1 PROVE k = Len(old) + 1 \/ k \in 1 .. Len(old)
        BY <2>1
      <4> QED BY <3>3, <4>1, <4>2, <4>3
    <3>7. Full => Len(flat[m]) = IF m <= count THEN m ELSE count
      <4>1. SUFFICES ASSUME Full PROVE Len(flat[m]) = IF m <= count THEN m ELSE count
        OBVIOUS
      <4>2. m <= count
        BY <2>2, <2>5, <4>1
      <4> HIDE DEF Full
      <4> QED BY <1>1, <2>1, <2>3, <3>3, <4>1, <4>2
    <3> HIDE DEF part, OneEach, FromFirst, Full
    <3> QED BY <2>1, <3>4, <3>5, <3>6, <3>7
  <2> QED BY <2>4, <2>5
<1>12. n \in Right
  <2> HIDE DEF Right
  <2>1. \A m \in 0 .. n : m \in Right
    BY <1>1, <1>10, <1>11, CountsUp
  <2> QED BY <1>1, <2>1
<1> DEFINE parts == flat[n]
<1>13. /\ S!Workers(parts) = sum[n] /\ OneEach(parts) /\ FromFirst(parts, n)
       /\ Full => Len(parts) = IF n <= count THEN n ELSE count
  <2> HIDE DEF OneEach, FromFirst, Full
  <2> QED BY <1>12
<1>14. DOMAIN parts = 1 .. Len(parts)
  <2>1. n \in 0 .. n
    BY <1>1
  <2>2. parts \in Seq(PartSet)
    BY <1>6, <1>7, <2>1 DEF Flat
  <2> QED BY <2>2
<1>15. count \in 0 .. n
  OBVIOUS
<1>16. Sound(parts, sum[n])
  BY <1>13, <1>14 DEF Sound
<1>17. Full => Len(parts) = count
  <2> HIDE DEF Full, parts
  <2> QED BY <1>1, <1>13, <1>15
<1> HIDE DEF parts
<1> QED BY <1>4, <1>7, <1>9, <1>13, <1>14, <1>16, <1>17 DEF parts

\* Products and quotients, in the steps that the provers need.
LEMMA Products ==
  ASSUME NEW a \in Int, NEW b \in Int, NEW c \in Int
  PROVE  /\ a * b \in Int /\ a * b = b * a
         /\ a * (b + c) = a * b + a * c
         /\ a >= 0 /\ b <= c => a * b <= a * c
         /\ a > 0 /\ a * b <= a * c => b <= c
<1>1. a * b \in Int /\ a * b = b * a
  OBVIOUS
<1>2. a * (b + c) = a * b + a * c
  OBVIOUS
<1>3. a >= 0 /\ b <= c => a * b <= a * c
  OBVIOUS
<1>4. a > 0 /\ a * b <= a * c => b <= c
  OBVIOUS
<1> QED BY <1>1, <1>2, <1>3, <1>4

LEMMA SumOfProducts ==
  ASSUME NEW t \in Nat, NEW u \in Nat, NEW a \in Nat, NEW b \in Nat, NEW c \in Nat, NEW d \in Nat,
         t * a <= u * c, t * b <= u * d
  PROVE  t * (a + b) <= u * (c + d)
<1>1. t * (a + b) = t * a + t * b /\ u * (c + d) = u * c + u * d
  BY Products
<1>2. t * a \in Int /\ t * b \in Int /\ u * c \in Int /\ u * d \in Int
  BY Products
<1> QED BY <1>1, <1>2

LEMMA BoundedProduct ==
  ASSUME NEW t \in Nat \ {0}, NEW u \in Nat, NEW a \in Nat, NEW b \in Nat, t * a <= u * b, b <= t
  PROVE  a <= u
<1>1. u * b <= u * t /\ u * t = t * u
  BY Products
<1>2. t * a \in Int /\ u * b \in Int /\ t * u \in Int
  BY Products
<1>3. t * a <= t * u
  BY <1>1, <1>2
<1> QED BY <1>3, Products

LEMMA Division ==
  ASSUME NEW a \in Nat, NEW b \in Nat \ {0}
  PROVE  /\ a \div b \in Nat /\ a % b \in 0 .. b - 1 /\ a = b * (a \div b) + (a % b)
         /\ b * (a \div b) <= a
         /\ a < b => a \div b = 0 /\ a % b = a
         /\ a >= b => a \div b > 0
<1>1. a % b \in 0 .. b - 1 /\ a = b * (a \div b) + (a % b)
  OBVIOUS
<1>2. a \div b \in Int
  OBVIOUS
<1>3. a \div b >= 0
  <2>1. SUFFICES ASSUME a \div b <= -1 PROVE FALSE
    BY <1>2
  <2>2. b * (a \div b) <= b * (-1)
    BY <1>2, <2>1, Products
  <2> QED BY <1>1, <1>2, <2>2
<1>4. b * (a \div b) <= a
  OBVIOUS
<1>5. a < b => a \div b = 0 /\ a % b = a
  OBVIOUS
<1>6. a >= b => a \div b > 0
  OBVIOUS
<1> QED BY <1>1, <1>2, <1>3, <1>4, <1>5, <1>6

LEMMA LastIndex ==
  \A m \in Nat \ {0} : m \in 1 .. m /\ \A i \in 1 .. m - 1 : i \in 1 .. m /\ i # m
OBVIOUS

\* Everyone gets the same, and the first ones one more each.
LEMMA EqualIsSound ==
  ASSUME NEW T, NEW slaves \in Seq(T), Different(slaves), Len(slaves) # 0, NEW totalWorkers \in Nat
  PROVE  LET equal == S!EqualSplit(slaves, totalWorkers)
         IN  /\ Sound(equal, totalWorkers)
             /\ \A i, j \in DOMAIN equal : equal[i].workers - equal[j].workers <= 1
             /\ Len(equal) = S!Min({totalWorkers, Len(slaves)})
<1> DEFINE n == Len(slaves)
           q == totalWorkers \div n
           r == totalWorkers % n
           workers == [i \in 1 .. n |-> q + IF i <= r THEN 1 ELSE 0]
           count == IF totalWorkers >= n THEN n ELSE totalWorkers
           equal == S!EqualSplit(slaves, totalWorkers)
<1>1. n \in Nat \ {0} /\ DOMAIN slaves = 1 .. n
  OBVIOUS
<1>2. /\ q \in Nat /\ r \in 0 .. n - 1 /\ totalWorkers = n * q + r
      /\ totalWorkers < n => q = 0 /\ r = totalWorkers
      /\ totalWorkers >= n => q > 0
  <2> HIDE DEF n
  <2> QED BY <1>1, Division
<1>3. S!EqualSplit(slaves, totalWorkers) = S!Parts(slaves, workers)
  BY <1>1 DEF S!EqualSplit
<1> HIDE DEF q, r
<1>4. \A i \in 1 .. n : workers[i] = q + IF i <= r THEN 1 ELSE 0
  OBVIOUS
<1>5. workers \in [1 .. n -> Nat] /\ workers \in Seq(Int) /\ Len(workers) = n
  BY <1>1, <1>2
<1> HIDE DEF workers
<1>6. S!Sum(workers) = totalWorkers
  <2>1. PICK sum : Sums(workers, sum) /\ S!Sum(workers) = sum[n]
    BY <1>5, SumIs
  <2> DEFINE Right == {m \in 0 .. n : sum[m] = q * m + IF m <= r THEN m ELSE r}
  <2>2. 0 \in Right
    <3>1. q * 0 = 0 /\ sum[0] = 0 /\ 0 <= r
      BY <1>2, <2>1 DEF Sums
    <3> QED BY <1>1, <3>1
  <2>3. ASSUME NEW m \in 1 .. n, m - 1 \in Right PROVE m \in Right
    <3>1. sum[m] = sum[m - 1] + workers[m]
      BY <1>5, <2>1 DEF Sums
    <3>2. q * m = q * (m - 1) + q * 1
      <4>1. q * ((m - 1) + 1) = q * (m - 1) + q * 1
        BY <1>1, <1>2, Products
      <4> QED BY <1>1, <4>1
    <3>3. q * 1 = q /\ q * (m - 1) \in Int /\ m \in 0 .. n
      BY <1>1, <1>2
    <3>4. sum[m - 1] = q * (m - 1) + IF m - 1 <= r THEN m - 1 ELSE r
      BY <2>3
    <3>5. CASE m <= r
      <4>1. workers[m] = q + 1 /\ sum[m - 1] = q * (m - 1) + (m - 1)
        BY <1>1, <1>2, <1>4, <3>4, <3>5
      <4> QED BY <1>1, <1>2, <3>1, <3>2, <3>3, <3>5, <4>1
    <3>6. CASE m > r
      <4>1. workers[m] = q /\ sum[m - 1] = q * (m - 1) + r
        BY <1>1, <1>2, <1>4, <3>4, <3>6
      <4> QED BY <1>1, <1>2, <3>1, <3>2, <3>3, <3>6, <4>1
    <3> QED BY <1>1, <1>2, <3>5, <3>6
  <2>4. n \in Right
    <3> HIDE DEF Right
    <3>1. \A m \in 0 .. n : m \in Right
      BY <1>1, <2>2, <2>3, CountsUp
    <3> QED BY <1>1, <3>1
  <2>5. sum[n] = q * n + r
    <3>1. sum[n] = q * n + IF n <= r THEN n ELSE r
      BY <2>4
    <3>2. ~(n <= r)
      BY <1>1, <1>2
    <3> QED BY <3>1, <3>2
  <2>6. q * n = n * q
    BY <1>1, <1>2, Products
  <2> QED BY <1>2, <2>1, <2>5, <2>6
<1>7. count \in 0 .. n /\ count = S!Min({totalWorkers, n})
  BY <1>1, MinOfTwo
<1>8. \A i \in 1 .. n : workers[i] > 0 <=> i <= count
  <2>1. CASE totalWorkers >= n
    BY <1>1, <1>2, <1>4, <2>1
  <2>2. CASE totalWorkers < n
    <3>1. count = totalWorkers /\ q = 0 /\ r = totalWorkers
      BY <1>1, <1>2, <2>2
    <3>2. \A i \in 1 .. n : workers[i] = IF i <= totalWorkers THEN 1 ELSE 0
      BY <1>4, <3>1
    <3> QED BY <3>1, <3>2
  <2> QED BY <1>1, <2>1, <2>2
<1> HIDE DEF count
<1>9. /\ Sound(equal, totalWorkers)
      /\ \A k \in DOMAIN equal : \E i \in 1 .. n : equal[k].workers = workers[i]
      /\ Len(equal) = count
  <2> DEFINE parts == S!Parts(slaves, workers)
  <2>1. /\ Sound(parts, S!Sum(workers))
        /\ \A k \in DOMAIN parts : \E i \in 1 .. n : parts[k].workers = workers[i]
        /\ (\A i \in 1 .. n : workers[i] > 0 <=> i <= count) => Len(parts) = count
    BY <1>5, <1>7, PartsAre
  <2> QED BY <1>3, <1>6, <1>8, <2>1
<1> HIDE DEF equal
<1>10. \A k \in DOMAIN equal : equal[k].workers \in {q, q + 1}
  BY <1>2, <1>4, <1>9
<1>11. \A i, j \in DOMAIN equal : equal[i].workers - equal[j].workers <= 1
  BY <1>2, <1>10
<1> QED BY <1>7, <1>9, <1>11 DEF equal

\* Everyone gets the share of the weight, rounded down, and the last one what is left.
LEMMA WeightedIsSound ==
  ASSUME NEW T, NEW slaves \in Seq(T), Different(slaves), NEW totalWorkers \in Nat, NEW weights,
         \A i \in 1 .. Len(slaves) : S!getWeight(weights, slaves[i]) \in Nat,
         \E i \in 1 .. Len(slaves) : S!getWeight(weights, slaves[i]) > 0
  PROVE  Sound(S!WeightedSplit(slaves, totalWorkers, weights), totalWorkers)
<1> DEFINE n == Len(slaves)
           weight == [i \in 1 .. n |-> S!getWeight(weights, slaves[i])]
           total == S!Sum(weight)
           share == [i \in 1 .. n |-> (totalWorkers * S!getWeight(weights, slaves[i])) \div total]
           given == S!Sum(SubSeq(share, 1, n - 1))
           workers == [share EXCEPT ![n] = totalWorkers - given]
<1>1. n \in Nat \ {0} /\ DOMAIN slaves = 1 .. n
  OBVIOUS
<1>2. S!WeightedSplit(slaves, totalWorkers, weights) = S!Parts(slaves, workers)
  BY DEF S!WeightedSplit
<1>3. /\ \A i \in 1 .. n : weight[i] \in Nat
      /\ \E i \in 1 .. n : weight[i] > 0
      /\ weight \in Seq(Int) /\ Len(weight) = n
      /\ share = [i \in 1 .. n |-> (totalWorkers * weight[i]) \div total]
  BY <1>1
<1> HIDE DEF weight
<1>4. PICK ofWeights : Sums(weight, ofWeights) /\ total = ofWeights[n]
  BY <1>3, SumIs
<1>5. \A m \in 0 .. n : ofWeights[m] \in Nat /\ \A i \in 1 .. m : ofWeights[m] >= weight[i]
  <2> DEFINE Right == {m \in 0 .. n : ofWeights[m] \in Nat /\ \A i \in 1 .. m : ofWeights[m] >= weight[i]}
  <2>1. 0 \in Right
    BY <1>1, <1>4 DEF Sums
  <2>2. ASSUME NEW m \in 1 .. n, m - 1 \in Right PROVE m \in Right
    <3>1. ofWeights[m] = ofWeights[m - 1] + weight[m] /\ weight[m] \in Nat
      BY <1>3, <1>4 DEF Sums
    <3>2. ofWeights[m - 1] \in Nat /\ \A i \in 1 .. m - 1 : ofWeights[m - 1] >= weight[i] /\ weight[i] \in Nat
      <4>1. ofWeights[m - 1] \in Nat /\ \A i \in 1 .. m - 1 : ofWeights[m - 1] >= weight[i]
        BY <2>2
      <4>2. \A i \in 1 .. m - 1 : i \in 1 .. n
        BY <1>1
      <4> QED BY <1>3, <4>1, <4>2
    <3>3. ASSUME NEW i \in 1 .. m PROVE ofWeights[m] >= weight[i]
      <4>1. i = m \/ i \in 1 .. m - 1
        BY <1>1
      <4> QED BY <3>1, <3>2, <4>1
    <3>4. m \in 0 .. n
      BY <1>1
    <3> QED BY <3>1, <3>2, <3>3, <3>4
  <2>3. \A m \in 0 .. n : m \in Right
    <3> HIDE DEF Right
    <3> QED BY <1>1, <2>1, <2>2, CountsUp
  <2> QED BY <2>3
<1>6. total \in Nat \ {0} /\ total - ofWeights[n - 1] \in Nat
  <2>1. total \in Nat /\ \A i \in 1 .. n : total >= weight[i]
    BY <1>1, <1>4, <1>5
  <2> HIDE DEF total
  <2>2. total # 0
    BY <1>1, <1>3, <2>1
  <2>3. total = ofWeights[n - 1] + weight[n] /\ weight[n] \in Nat /\ ofWeights[n - 1] \in Nat
    <3>1. n \in 1 .. n /\ n - 1 \in 0 .. n
      BY <1>1
    <3>2. ofWeights[n] = ofWeights[n - 1] + weight[n]
      BY <1>3, <1>4, <3>1 DEF Sums
    <3> QED BY <1>3, <1>4, <1>5, <3>1, <3>2 DEF total
  <2> QED BY <2>1, <2>2, <2>3
<1> HIDE DEF total
<1>7. ASSUME NEW i \in 1 .. n
      PROVE  share[i] \in Nat /\ total * share[i] <= totalWorkers * weight[i]
  <2>1. totalWorkers * weight[i] \in Nat /\ weight[i] \in Nat
    BY <1>3
  <2>2. share[i] = (totalWorkers * weight[i]) \div total
    BY <1>3
  <2> HIDE DEF share
  <2> DEFINE product == totalWorkers * weight[i]
  <2> HIDE DEF product
  <2>3. product \div total \in Nat /\ total * (product \div total) <= product
    BY <1>6, <2>1, Division DEF product
  <2> QED BY <2>2, <2>3 DEF product
<1>8. share \in Seq(Int) /\ Len(share) = n /\ DOMAIN share = 1 .. n
  BY <1>1, <1>7
<1> HIDE DEF share
<1>9. PICK ofShares : Sums(share, ofShares)
  BY <1>8, SumIs
<1>10. given = ofShares[n - 1]
  BY <1>1, <1>8, <1>9, SumsOfPrefixes
<1>11. \A m \in 0 .. n : ofShares[m] \in Nat /\ total * ofShares[m] <= totalWorkers * ofWeights[m]
  <2> DEFINE Right == {m \in 0 .. n : ofShares[m] \in Nat /\ total * ofShares[m] <= totalWorkers * ofWeights[m]}
  <2>1. 0 \in Right
    BY <1>1, <1>4, <1>6, <1>9 DEF Sums
  <2>2. ASSUME NEW m \in 1 .. n, m - 1 \in Right PROVE m \in Right
    <3>1. ofShares[m] = ofShares[m - 1] + share[m] /\ ofWeights[m] = ofWeights[m - 1] + weight[m]
      BY <1>3, <1>4, <1>8, <1>9 DEF Sums
    <3>2. /\ ofShares[m - 1] \in Nat /\ share[m] \in Nat /\ ofWeights[m - 1] \in Nat /\ weight[m] \in Nat
          /\ m \in 0 .. n
      BY <1>1, <1>3, <1>5, <1>7, <2>2
    <3>3. total * ofShares[m - 1] <= totalWorkers * ofWeights[m - 1] /\ total * share[m] <= totalWorkers * weight[m]
      BY <1>7, <2>2
    <3> HIDE DEF Right
    <3>4. total * (ofShares[m - 1] + share[m]) <= totalWorkers * (ofWeights[m - 1] + weight[m])
      BY <1>6, <3>2, <3>3, SumOfProducts
    <3>5. total * ofShares[m] <= totalWorkers * ofWeights[m]
      BY <3>1, <3>4
    <3>6. ofShares[m] \in Nat
      BY <3>1, <3>2
    <3> QED BY <3>2, <3>5, <3>6 DEF Right
  <2>3. \A m \in 0 .. n : m \in Right
    <3> HIDE DEF Right
    <3> QED BY <1>1, <2>1, <2>2, CountsUp
  <2> QED BY <2>3
<1>12. given \in Nat /\ given <= totalWorkers
  <2>1. given \in Nat /\ total * given <= totalWorkers * ofWeights[n - 1] /\ ofWeights[n - 1] \in Nat
    BY <1>1, <1>5, <1>10, <1>11
  <2> HIDE DEF given
  <2>2. ofWeights[n - 1] <= total
    BY <1>6, <2>1
  <2>3. given <= totalWorkers
    BY <1>6, <2>1, <2>2, BoundedProduct
  <2> QED BY <2>1, <2>3
<1> HIDE DEF given
<1>13. /\ workers \in [1 .. n -> Nat] /\ workers \in Seq(Int) /\ Len(workers) = n
       /\ workers[n] = totalWorkers - given /\ \A i \in 1 .. n - 1 : workers[i] = share[i]
  <2>1. \A i \in 1 .. n : workers[i] \in Nat
    BY <1>7, <1>8, <1>12
  <2>2. workers = [i \in 1 .. n |-> IF i = n THEN totalWorkers - given ELSE share[i]]
    BY <1>8
  <2> HIDE DEF workers
  <2>3. workers[n] = totalWorkers - given /\ \A i \in 1 .. n - 1 : workers[i] = share[i]
    <3> HIDE DEF n
    <3>1. n \in 1 .. n /\ \A i \in 1 .. n - 1 : i \in 1 .. n /\ i # n
      BY <1>1, LastIndex
    <3> QED BY <2>2, <3>1
  <2>4. workers \in [1 .. n -> Nat]
    BY <2>1, <2>2
  <2>5. workers \in Seq(Int) /\ Len(workers) = n
    BY <1>1, <2>4
  <2> QED BY <2>3, <2>4, <2>5
<1> HIDE DEF workers
<1>14. S!Sum(workers) = totalWorkers
  <2>1. PICK sum : Sums(workers, sum) /\ S!Sum(workers) = sum[n]
    BY <1>13, SumIs
  <2>2. SubSeq(workers, 1, n - 1) = SubSeq(share, 1, n - 1)
    BY <1>1, <1>8, <1>13
  <2>3. n - 1 \in 0 .. n /\ n \in 1 .. n
    BY <1>1
  <2>4. sum[n - 1] = given
    <3>1. S!Sum(SubSeq(workers, 1, n - 1)) = sum[n - 1]
      BY <1>13, <2>1, <2>3, SumsOfPrefixes
    <3> QED BY <2>2, <3>1 DEF given
  <2>5. sum[n] = sum[n - 1] + workers[n]
    BY <1>13, <2>1, <2>3 DEF Sums
  <2> QED BY <1>12, <1>13, <2>1, <2>4, <2>5
<1>15. n \in 0 .. n
  BY <1>1
<1>16. Sound(S!Parts(slaves, workers), S!Sum(workers))
  BY <1>13, <1>15, PartsAre
<1> QED BY <1>2, <1>14, <1>16

-----------------------------------------------------------------------------
(* Selectors.                                                              *)

\* What every selector promises of the list it returns.
Selected(chosen, slaves, count, T) ==
  /\ Distinct(chosen, T) /\ Elements(chosen) \subseteq Elements(slaves)
  /\ Len(chosen) = S!Min({count, Len(slaves)})

\* All of a list.
LEMMA AllAreSelected ==
  ASSUME NEW T, NEW slaves, Distinct(slaves, T), NEW count \in Nat, count >= Len(slaves)
  PROVE  Selected(slaves, slaves, count, T)
<1>1. Len(slaves) \in Nat
  BY DEF Distinct
<1> QED BY <1>1, MinOfTwo DEF Selected

\* The first of any order of a list.
LEMMA FirstAreSelected ==
  ASSUME NEW T, NEW slaves, Distinct(slaves, T), NEW count \in Nat, count < Len(slaves),
         NEW order, Distinct(order, T), Elements(order) = Elements(slaves)
  PROVE  /\ Selected(SubSeq(order, 1, count), slaves, count, T)
         /\ \A s \in Elements(SubSeq(order, 1, count)) : \E i \in 1 .. count : s = order[i]
         /\ \A t \in Elements(slaves) \ Elements(SubSeq(order, 1, count)) :
              \E j \in 1 .. Len(order) : j > count /\ t = order[j]
<1>1. Len(order) = Len(slaves) /\ Len(order) \in Nat
  <2>1. Len(order) = Len(slaves)
    BY SameLength
  <2> QED BY <2>1 DEF Distinct
<1>2. count \in 0 .. Len(order)
  BY <1>1
<1> DEFINE first == SubSeq(order, 1, count)
<1>3. /\ Distinct(first, T) /\ Len(first) = count /\ Elements(first) \subseteq Elements(order)
      /\ Elements(first) = {order[i] : i \in 1 .. count}
  BY <1>2, FirstAreDistinct
<1> HIDE DEF first
<1>4. count = S!Min({count, Len(slaves)})
  BY <1>1, MinOfTwo
<1>5. ASSUME NEW t \in Elements(slaves) \ Elements(first) PROVE \E j \in 1 .. Len(order) : j > count /\ t = order[j]
  <2>1. PICK j \in 1 .. Len(order) : t = order[j]
    BY DEF Elements
  <2>2. j \notin 1 .. count
    BY <1>3, <2>1
  <2> QED BY <1>1, <2>1, <2>2
<1> QED BY <1>3, <1>4, <1>5 DEF Selected, first

\* Shuffles are orders of the list.
LEMMA ShufflesAreOrders ==
  ASSUME NEW T, NEW slaves, Distinct(slaves, T), NEW order \in S!Shuffles(slaves)
  PROVE  Distinct(order, T) /\ Elements(order) = Elements(slaves)
<1> DEFINE n == Len(slaves)
           D == 1 .. n
<1>1. n \in Nat /\ DOMAIN slaves = D /\ slaves \in [D -> T]
  BY DEF Distinct
<1>2. IsFiniteSet(D) /\ Cardinality(D) = n
  BY <1>1, FS_Interval
<1>3. S!Cardinality(D) = n
  BY <1>2, SameCardinality
<1> HIDE DEF n
<1>4. PICK p \in [D -> D] : (\A i, j \in D : i # j => p[i] # p[j]) /\ order = [i \in D |-> slaves[p[i]]]
  <2>1. order \in {[i \in D |-> slaves[p[i]]] : p \in S!SetToSeqs(D)}
    BY <1>1 DEF S!Shuffles
  <2>2. S!SetToSeqs(D) = {f \in [D -> D] : \A i, j \in D : i # j => f[i] # f[j]}
    BY <1>3 DEF S!SetToSeqs
  <2> HIDE DEF D
  <2> QED BY <2>1, <2>2
<1>5. p \in Injection(D, D)
  BY <1>4 DEF Injection, IsInjective
<1>6. p \in Surjection(D, D)
  BY <1>2, <1>5, FS_Injection
<1>7. \A j \in D : \E i \in D : p[i] = j
  BY <1>6 DEF Surjection
<1>8. \A i \in D : order[i] = slaves[p[i]] /\ p[i] \in D
  BY <1>4
<1>9. order \in Seq(T) /\ Len(order) = n
  BY <1>1, <1>4
<1>10. \A i, j \in D : slaves[i] = slaves[j] => i = j
  BY DEF Distinct, n
<1>11. \A i, j \in D : order[i] = order[j] => i = j
  BY <1>4, <1>8, <1>10
<1>12. Elements(order) = {order[i] : i \in D} /\ Elements(slaves) = {slaves[i] : i \in D}
  BY <1>9 DEF Elements, n
<1> HIDE DEF D
<1>13. {order[i] : i \in D} = {slaves[i] : i \in D}
  BY <1>7, <1>8
<1> QED BY <1>9, <1>11, <1>12, <1>13 DEF Distinct, D

\* At random: as many as asked for.
LEMMA RandomSelects ==
  ASSUME NEW T, NEW slaves, Distinct(slaves, T), NEW count \in Nat, NEW chosen \in S!Random(slaves, count)
  PROVE  Selected(chosen, slaves, count, T)
<1>1. CASE count >= Len(slaves)
  <2>1. chosen = slaves
    BY <1>1 DEF S!Random
  <2> QED BY <1>1, <2>1, AllAreSelected
<1>2. CASE ~(count >= Len(slaves))
  <2>1. PICK order \in S!Shuffles(slaves) : chosen = SubSeq(order, 1, count)
    BY <1>2 DEF S!Random
  <2>2. Distinct(order, T) /\ Elements(order) = Elements(slaves)
    BY ShufflesAreOrders
  <2>3. count < Len(slaves)
    BY <1>2 DEF Distinct
  <2> QED BY <2>1, <2>2, <2>3, FirstAreSelected
<1> QED BY <1>1, <1>2

\* The least loaded: those left out have no less load.
LEMMA LeastLoadedSelects ==
  ASSUME NEW T, \A s \in T : s.load \in Int, NEW slaves, Distinct(slaves, T), NEW count \in Nat,
         NEW chosen \in S!LeastLoaded(slaves, count)
  PROVE  /\ Selected(chosen, slaves, count, T)
         /\ \A s \in Elements(chosen), t \in Elements(slaves) \ Elements(chosen) : s.load <= t.load
<1>1. CASE count >= Len(slaves)
  <2>1. chosen = slaves
    BY <1>1 DEF S!LeastLoaded
  <2> QED BY <1>1, <2>1, AllAreSelected
<1>2. CASE ~(count >= Len(slaves))
  <2>1. PICK order \in S!Shuffles(slaves) :
          /\ chosen = SubSeq(order, 1, count)
          /\ \A i, j \in DOMAIN order : i < j => order[i].load <= order[j].load
    BY <1>2 DEF S!LeastLoaded
  <2>2. Distinct(order, T) /\ Elements(order) = Elements(slaves)
    BY ShufflesAreOrders
  <2>3. count < Len(slaves)
    BY <1>2 DEF Distinct
  <2>4. /\ Selected(chosen, slaves, count, T)
        /\ \A s \in Elements(chosen) : \E i \in 1 .. count : s = order[i]
        /\ \A t \in Elements(slaves) \ Elements(chosen) : \E j \in 1 .. Len(order) : j > count /\ t = order[j]
    BY <2>1, <2>2, <2>3, FirstAreSelected
  <2>5. ASSUME NEW s \in Elements(chosen), NEW t \in Elements(slaves) \ Elements(chosen) PROVE s.load <= t.load
    <3>1. PICK i \in 1 .. count : s = order[i]
      BY <2>4
    <3>2. PICK j \in 1 .. Len(order) : j > count /\ t = order[j]
      BY <2>4
    <3>3. DOMAIN order = 1 .. Len(order) /\ Len(order) \in Nat
      BY <2>2 DEF Distinct
    <3>4. i \in 1 .. Len(order) /\ i < j
      BY <3>2, <3>3
    <3> QED BY <2>1, <3>1, <3>2, <3>3, <3>4
  <2> QED BY <2>4, <2>5
<1> QED BY <1>1, <1>2

\* By region: whoever is left out of the preferred regions is so for others of them.
LEMMA LocationAwareSelects ==
  ASSUME NEW T, NEW slaves, Distinct(slaves, T), NEW count \in Nat, NEW regions,
         NEW chosen \in S!LocationAware(slaves, count, regions)
  PROVE  /\ Selected(chosen, slaves, count, T)
         /\ \A s \in Elements(chosen), t \in Elements(slaves) \ Elements(chosen) :
              t.region \in regions => s.region \in regions
<1> DEFINE near == {s \in S!ToSet(slaves) : s.region \in regions}
           far == S!ToSet(slaves) \ near
           a == S!Keep(slaves, near)
           b == S!Keep(slaves, far)
           order == a \o b
<1>1. S!ToSet(slaves) = Elements(slaves) /\ Len(slaves) \in Nat
  BY ElementsAre DEF Distinct
<1>2. chosen = S!FirstOf(order, count)
  BY DEF S!LocationAware
<1> HIDE DEF near, far
<1>3. /\ Distinct(a, T) /\ Elements(a) = {s \in Elements(slaves) : s \in near}
      /\ Distinct(b, T) /\ Elements(b) = {s \in Elements(slaves) : s \in far}
  BY KeepIs
<1> HIDE DEF a, b
<1>4. /\ \A s \in Elements(a) : s.region \in regions
      /\ \A s \in Elements(b) : s.region \notin regions
      /\ Elements(a) \cap Elements(b) = {} /\ Elements(a) \cup Elements(b) = Elements(slaves)
  <2>1. /\ \A s \in Elements(slaves) : s \in near <=> s.region \in regions
        /\ \A s \in Elements(slaves) : s \in far <=> s \notin near
    BY <1>1 DEF near, far
  <2>2. Elements(a) \cap Elements(b) = {} /\ Elements(a) \cup Elements(b) = Elements(slaves)
    BY <1>3, <2>1
  <2> QED BY <1>3, <2>1, <2>2
<1>5. Distinct(order, T) /\ Elements(order) = Elements(slaves)
  <2>1. Distinct(a, T) /\ Distinct(b, T) /\ Apart(a, b)
    BY <1>3, <1>4 DEF Apart
  <2>2. HoldsBoth(a \o b, a, b, T)
    BY <2>1, ConcatIsDistinct
  <2> QED BY <1>4, <2>2 DEF HoldsBoth
<1>6. /\ Len(a) \in Nat /\ Len(b) \in Nat /\ Len(order) = Len(a) + Len(b)
      /\ \A i \in 1 .. Len(order) : order[i] = IF i <= Len(a) THEN a[i] ELSE b[i - Len(a)]
  BY <1>3 DEF Distinct
<1> HIDE DEF order
<1>7. Len(order) = Len(slaves)
  BY <1>5, SameLength
<1>8. CASE count >= Len(slaves)
  <2>1. chosen = order
    BY <1>2, <1>7, <1>8 DEF S!FirstOf
  <2>2. Selected(chosen, slaves, count, T)
    BY <1>1, <1>5, <1>7, <1>8, <2>1, MinOfTwo DEF Selected
  <2> QED BY <1>5, <2>1, <2>2
<1>9. CASE count < Len(slaves)
  <2>1. chosen = SubSeq(order, 1, count)
    BY <1>1, <1>2, <1>7, <1>9 DEF S!FirstOf
  <2>2. /\ Selected(chosen, slaves, count, T)
        /\ \A s \in Elements(chosen) : \E i \in 1 .. count : s = order[i]
        /\ \A t \in Elements(slaves) \ Elements(chosen) : \E j \in 1 .. Len(order) : j > count /\ t = order[j]
    BY <1>5, <1>9, <2>1, FirstAreSelected
  <2>3. ASSUME NEW s \in Elements(chosen), NEW t \in Elements(slaves) \ Elements(chosen), t.region \in regions
        PROVE  s.region \in regions
    <3>1. PICK i \in 1 .. count : s = order[i]
      BY <2>2
    <3>2. PICK j \in 1 .. Len(order) : j > count /\ t = order[j]
      BY <2>2
    <3>3. j <= Len(a)
      <4>1. SUFFICES ASSUME j > Len(a) PROVE FALSE
        BY <1>6
      <4>2. j - Len(a) \in 1 .. Len(b) /\ t = b[j - Len(a)]
        BY <1>6, <3>2, <4>1
      <4> QED BY <1>4, <2>3, <4>2 DEF Elements
    <3>4. i \in 1 .. Len(a) /\ s = a[i]
      BY <1>6, <3>1, <3>2, <3>3
    <3> QED BY <1>4, <3>4 DEF Elements
  <2> QED BY <2>2, <2>3
<1> QED BY <1>1, <1>8, <1>9

\* By turns: two turns that fit in the list take nobody twice.
LEMMA RoundRobinSelects ==
  ASSUME NEW T, NEW slaves, Distinct(slaves, T), NEW count \in Nat, NEW first \in S!RoundRobin(slaves, count, 0)
  PROVE  /\ Selected(first.chosen, slaves, count, T)
         /\ \A second \in S!RoundRobin(slaves, count, first.index) :
              2 * count <= Len(slaves) => Elements(first.chosen) \cap Elements(second.chosen) = {}
<1> DEFINE n == Len(slaves)
<1>1. n \in Nat /\ slaves \in Seq(T) /\ \A i, j \in 1 .. n : slaves[i] = slaves[j] => i = j
  BY DEF Distinct
<1>2. CASE count >= n
  <2>1. first.chosen = slaves
    BY <1>2 DEF S!RoundRobin
  <2>2. 2 * count <= n => Elements(slaves) = {}
    BY <1>1, <1>2 DEF Elements
  <2> QED BY <1>2, <2>1, <2>2, AllAreSelected
<1>3. CASE count < n
  <2>1. /\ first.chosen = [i \in 1 .. count |-> slaves[((0 + i - 1) % n) + 1]]
        /\ first.index = (0 + count) % n
    <3>1. first \in {[chosen |-> [i \in 1 .. count |-> slaves[((0 + i - 1) % n) + 1]], index |-> (0 + count) % n]}
      BY <1>1, <1>3 DEF S!RoundRobin
    <3> QED BY <3>1
  <2> HIDE DEF n
  <2>2. \A x \in Nat : x < n => x % n = x
    BY <1>1, Division
  <2>3. first.index = count
    BY <1>3, <2>1, <2>2
  <2>4. \A i \in 1 .. count : i - 1 \in Nat /\ i - 1 < n /\ 0 + i - 1 = i - 1 /\ (i - 1) + 1 = i
    BY <1>1, <1>3
  <2>5. \A i \in 1 .. count : slaves[((0 + i - 1) % n) + 1] = slaves[i]
    BY <2>2, <2>4
  <2>6. SubSeq(slaves, 1, count) = [i \in 1 .. count |-> slaves[i]]
    BY <1>1, <1>3 DEF n
  <2>7. first.chosen = SubSeq(slaves, 1, count)
    BY <2>1, <2>5, <2>6
  <2>8. Selected(first.chosen, slaves, count, T) /\ \A s \in Elements(first.chosen) : \E i \in 1 .. count : s = slaves[i]
    <3>1. count < Len(slaves)
      BY <1>3 DEF n
    <3> QED BY <2>7, <3>1, FirstAreSelected
  <2>9. ASSUME NEW second \in S!RoundRobin(slaves, count, first.index), 2 * count <= n
        PROVE  Elements(first.chosen) \cap Elements(second.chosen) = {}
    <3>1. second.chosen = [i \in 1 .. count |-> slaves[((count + i - 1) % n) + 1]]
      <4>1. second \in {[chosen |-> [i \in 1 .. count |-> slaves[((count + i - 1) % n) + 1]],
                         index |-> (count + count) % n]}
        BY <1>1, <1>3, <2>3 DEF S!RoundRobin, n
      <4> QED BY <4>1
    <3>2. \A i \in 1 .. count : count + i - 1 \in Nat /\ count + i - 1 < n
      BY <1>1, <2>9
    <3>3. \A i \in 1 .. count : second.chosen[i] = slaves[(count + i - 1) + 1]
      BY <2>2, <3>1, <3>2
    <3>4. Len(second.chosen) = count
      BY <3>1
    <3>5. ASSUME NEW s \in Elements(second.chosen) PROVE \E j \in 1 .. n : j > count /\ s = slaves[j]
      <4>1. PICK i \in 1 .. count : s = second.chosen[i]
        BY <3>4 DEF Elements
      <4>2. (count + i - 1) + 1 \in 1 .. n /\ (count + i - 1) + 1 > count
        BY <1>1, <2>9
      <4> QED BY <3>3, <4>1, <4>2
    <3>6. \A i \in 1 .. count : i \in 1 .. n /\ ~(i > count)
      BY <1>1, <1>3
    <3> QED BY <1>1, <2>8, <3>5, <3>6
  <2> QED BY <2>8, <2>9 DEF n
<1> QED BY <1>1, <1>2, <1>3

\* Every selector is fair.
LEMMA SelectorsAreFair ==
  ASSUME NEW T, \A s \in T : s.load \in Int, NEW slaves, Distinct(slaves, T), NEW count \in Nat
  PROVE  S!SelectorIsFair(slaves, count)
<1> DEFINE Strategies == {"least_loaded", "location_aware", "round_robin", "random"}
           all == S!ToSet(slaves)
<1>1. all = Elements(slaves)
  BY ElementsAre DEF Distinct
<1>2. ASSUME NEW chosen, Selected(chosen, slaves, count, T)
      PROVE  /\ S!ToSet(chosen) = Elements(chosen)
             /\ S!ToSet(chosen) \subseteq all /\ S!IsInjective(chosen) /\ Len(chosen) = S!Min({count, Len(slaves)})
  <2>1. S!ToSet(chosen) = Elements(chosen) /\ DOMAIN chosen = 1 .. Len(chosen)
    BY <1>2, ElementsAre DEF Selected, Distinct
  <2> HIDE DEF all
  <2> QED BY <1>1, <1>2, <2>1 DEF Selected, Distinct, S!IsInjective
<1>3. ASSUME NEW strategy \in Strategies, NEW chosen \in S!GetSelector(strategy, {"north"}, slaves, count)
      PROVE  Selected(chosen, slaves, count, T)
  <2>1. CASE strategy = "least_loaded"
    <3>1. chosen \in S!LeastLoaded(slaves, count)
      BY <2>1 DEF S!GetSelector
    <3> QED BY <3>1, LeastLoadedSelects
  <2>2. CASE strategy = "location_aware"
    <3>1. chosen \in S!LocationAware(slaves, count, {"north"})
      BY <2>2 DEF S!GetSelector
    <3> QED BY <3>1, LocationAwareSelects
  <2>3. CASE strategy = "round_robin"
    <3>1. PICK first \in S!RoundRobin(slaves, count, 0) : chosen = first.chosen
      BY <2>3 DEF S!GetSelector
    <3> QED BY <3>1, RoundRobinSelects
  <2>4. CASE strategy = "random"
    <3>1. chosen \in S!Random(slaves, count)
      BY <2>4 DEF S!GetSelector
    <3> QED BY <3>1, RandomSelects
  <2> QED BY <2>1, <2>2, <2>3, <2>4
<1>4. ASSUME NEW chosen \in S!LeastLoaded(slaves, count), NEW s \in S!ToSet(chosen), NEW t \in all \ S!ToSet(chosen)
      PROVE  s.load <= t.load
  <2>1. /\ Selected(chosen, slaves, count, T)
        /\ \A x \in Elements(chosen), y \in Elements(slaves) \ Elements(chosen) : x.load <= y.load
    BY LeastLoadedSelects
  <2>2. S!ToSet(chosen) = Elements(chosen)
    BY <1>2, <2>1
  <2> HIDE DEF all
  <2> QED BY <1>1, <2>1, <2>2
<1>5. ASSUME NEW chosen \in S!LocationAware(slaves, count, {"north"}),
             NEW s \in S!ToSet(chosen), NEW t \in all \ S!ToSet(chosen), t.region = "north"
      PROVE  s.region = "north"
  <2>1. /\ Selected(chosen, slaves, count, T)
        /\ \A x \in Elements(chosen), y \in Elements(slaves) \ Elements(chosen) :
             y.region \in {"north"} => x.region \in {"north"}
    BY LocationAwareSelects
  <2>2. S!ToSet(chosen) = Elements(chosen)
    BY <1>2, <2>1
  <2> HIDE DEF all
  <2>3. s \in Elements(chosen) /\ t \in Elements(slaves) \ Elements(chosen)
    BY <1>1, <2>2
  <2> QED BY <1>5, <2>1, <2>3
<1>6. ASSUME NEW first \in S!RoundRobin(slaves, count, 0), NEW second \in S!RoundRobin(slaves, count, first.index),
             2 * count <= Len(slaves)
      PROVE  S!ToSet(first.chosen) \cap S!ToSet(second.chosen) = {}
  <2>1. Selected(first.chosen, slaves, count, T) /\ Elements(first.chosen) \cap Elements(second.chosen) = {}
    BY <1>6, RoundRobinSelects
  <2>2. S!ToSet(first.chosen) = Elements(first.chosen)
    BY <1>2, <2>1
  <2>3. S!ToSet(second.chosen) = Elements(second.chosen)
    <3>1. DOMAIN second.chosen = 1 .. Len(second.chosen)
      <4>1. CASE count >= Len(slaves)
        <5>1. second.chosen = slaves
          BY <4>1 DEF S!RoundRobin
        <5> QED BY <5>1 DEF Distinct
      <4>2. CASE ~(count >= Len(slaves))
        <5>1. \E index : second = [chosen |-> [i \in 1 .. count |-> slaves[((first.index + i - 1) % Len(slaves)) + 1]],
                                   index |-> index]
          BY <4>2 DEF S!RoundRobin
        <5>2. second.chosen = [i \in 1 .. count |-> slaves[((first.index + i - 1) % Len(slaves)) + 1]]
          BY <5>1
        <5> QED BY <5>2
      <4> QED BY <4>1, <4>2
    <3> QED BY <3>1 DEF S!ToSet, Elements
  <2> QED BY <2>1, <2>2, <2>3
<1> HIDE DEF all
<1> QED BY <1>2, <1>3, <1>4, <1>5, <1>6 DEF S!SelectorIsFair, all

-----------------------------------------------------------------------------
(* All of Selection.                                                       *)

\* What Selection reads of a slave's numbers.
IsSlave(s) == s.load \in Int /\ s.cores \in Nat /\ s.running \in Nat /\ s.maxConcurrency \in Nat

LEMMA SplitsAreComplete ==
  ASSUME NEW T, \A s \in T : IsSlave(s), NEW slaves \in Seq(T), Different(slaves),
         NEW totalWorkers \in Nat, NEW weights, \A id \in DOMAIN weights : weights[id] \in Nat
  PROVE  S!SplitIsComplete(slaves, totalWorkers, weights)
<1>1. SUFFICES ASSUME slaves # << >> PROVE S!SplitIsComplete(slaves, totalWorkers, weights)
  BY DEF S!SplitIsComplete
<1>2. Len(slaves) # 0 /\ DOMAIN slaves = 1 .. Len(slaves)
  BY <1>1
<1>3. /\ Sound(S!EqualSplit(slaves, totalWorkers), totalWorkers)
      /\ \A i, j \in DOMAIN S!EqualSplit(slaves, totalWorkers) :
           S!EqualSplit(slaves, totalWorkers)[i].workers - S!EqualSplit(slaves, totalWorkers)[j].workers <= 1
      /\ Len(S!EqualSplit(slaves, totalWorkers)) = S!Min({totalWorkers, Len(slaves)})
  BY <1>2, EqualIsSound
<1>4. ASSUME \E i \in DOMAIN slaves : S!getWeight(weights, slaves[i]) > 0
      PROVE  Sound(S!WeightedSplit(slaves, totalWorkers, weights), totalWorkers)
  <2>1. ASSUME NEW i \in 1 .. Len(slaves) PROVE S!getWeight(weights, slaves[i]) \in Nat
    <3>1. slaves[i] \in T
      BY <1>2
    <3> QED BY <3>1 DEF S!getWeight, IsSlave
  <2> QED BY <1>2, <1>4, <2>1, WeightedIsSound
<1> QED BY <1>2, <1>3, <1>4 DEF S!SplitIsComplete, Sound

\* A default start.
LEMMA DefaultIsAlwaysSized ==
  ASSUME NEW T, \A s \in T : IsSlave(s), NEW slaves, Distinct(slaves, T), NEW totalWorkers \in Nat
  PROVE  S!DefaultIsSized(slaves, totalWorkers)
<1> DEFINE healthy == S!GetHealthy(slaves)
           fit == {s \in S!ToSet(slaves) : s.state \notin {"offline", "error"}}
<1>1. Distinct(healthy, T) /\ Elements(healthy) \subseteq Elements(slaves)
  <2>1. healthy = S!Keep(slaves, fit)
    BY DEF S!GetHealthy
  <2> HIDE DEF healthy, fit
  <2>2. Distinct(S!Keep(slaves, fit), T) /\ Elements(S!Keep(slaves, fit)) = {x \in Elements(slaves) : x \in fit}
    BY KeepIs
  <2> QED BY <2>1, <2>2
<1> HIDE DEF healthy
<1>2. Len(slaves) \in Nat /\ Len(healthy) \in Nat /\ Len(healthy) <= Len(slaves)
  BY <1>1, SameLength DEF Distinct
<1>3. ASSUME NEW workersPerSlave \in {1, 2}, NEW minSlaveCount \in {1, 2},
             NEW chosen \in S!DefaultStart(slaves, totalWorkers, workersPerSlave, minSlaveCount)
      PROVE  /\ Len(chosen) = S!Min({S!Max({totalWorkers \div workersPerSlave, minSlaveCount}), Len(healthy)})
             /\ S!ToSet(chosen) \subseteq S!ToSet(healthy)
  <2> DEFINE wanted == S!Max({totalWorkers \div workersPerSlave, minSlaveCount})
             required == S!Min({wanted, Len(slaves)})
  <2>1. wanted \in Nat
    <3>1. totalWorkers \div workersPerSlave \in Nat /\ minSlaveCount \in Nat
      OBVIOUS
    <3> QED BY <3>1, MaxOfTwo
  <2>2. chosen \in S!LeastLoaded(healthy, required)
    BY DEF S!DefaultStart, S!getRequiredSlaveCount, S!Select, S!GetSelector, healthy
  <2> HIDE DEF wanted
  <2>3. required = IF wanted <= Len(slaves) THEN wanted ELSE Len(slaves)
    BY <1>2, <2>1, MinOfTwo
  <2> HIDE DEF required
  <2>4. required \in Nat
    BY <1>2, <2>1, <2>3
  <2>5. \A s \in T : s.load \in Int
    BY DEF IsSlave
  <2>6. Selected(chosen, healthy, required, T)
    BY <1>1, <2>2, <2>4, <2>5, LeastLoadedSelects
  <2>7. Len(chosen) = S!Min({wanted, Len(healthy)})
    <3>1. S!Min({required, Len(healthy)}) = IF required <= Len(healthy) THEN required ELSE Len(healthy)
      BY <1>2, <2>4, MinOfTwo
    <3>2. S!Min({wanted, Len(healthy)}) = IF wanted <= Len(healthy) THEN wanted ELSE Len(healthy)
      BY <1>2, <2>1, MinOfTwo
    <3>3. Len(chosen) = S!Min({required, Len(healthy)})
      BY <2>6 DEF Selected
    <3> QED BY <1>2, <2>1, <2>3, <3>1, <3>2, <3>3
  <2>8. S!ToSet(chosen) = Elements(chosen) /\ S!ToSet(healthy) = Elements(healthy)
    BY <1>1, <2>6, ElementsAre DEF Selected, Distinct
  <2> QED BY <2>6, <2>7, <2>8 DEF Selected, wanted
<1> QED BY <1>3 DEF S!DefaultIsSized, healthy

LEMMA AllFiltersHold ==
  ASSUME NEW T, \A s \in T : IsSlave(s), NEW slaves, Distinct(slaves, T),
         NEW count \in Nat, NEW ids, NEW filter
  PROVE  S!FiltersHold(slaves, count, ids, filter)
<1>1. S!ToSet(slaves) = Elements(slaves) /\ Len(slaves) \in Nat /\ slaves \in Seq(T)
  BY ElementsAre DEF Distinct
<1>2. ASSUME NEW s \in S!ToSet(slaves)
      PROVE  s \in S!ToSet(S!filterSlaves(slaves, ids, "north")) <=>
               s.state = "idle" /\ IF ids = {} THEN s.region = "north" ELSE s.id \in ids
  <2> DEFINE idle == S!GetIdle(slaves)
             wanted == {x \in S!ToSet(idle) : IF ids # {} THEN x.id \in ids ELSE "north" \in {S!NoRegion, x.region}}
  <2>1. Distinct(idle, T) /\ Elements(idle) = {x \in Elements(slaves) : x \in {y \in S!ToSet(slaves) : y.state = "idle"}}
    BY KeepIs DEF S!GetIdle
  <2>2. S!filterSlaves(slaves, ids, "north") = S!Keep(idle, wanted)
    BY DEF S!filterSlaves
  <2> HIDE DEF idle
  <2>3. S!ToSet(idle) = Elements(idle)
    BY <2>1, ElementsAre DEF Distinct
  <2>4. \A x : x \in wanted <=> x \in Elements(idle) /\ IF ids # {} THEN x.id \in ids ELSE x.region = "north"
    BY <2>3 DEF S!NoRegion
  <2> HIDE DEF wanted
  <2>5. Distinct(S!Keep(idle, wanted), T) /\ Elements(S!Keep(idle, wanted)) = {x \in Elements(idle) : x \in wanted}
    BY <2>1, KeepIs
  <2>6. S!ToSet(S!Keep(idle, wanted)) = Elements(S!Keep(idle, wanted))
    BY <2>5, ElementsAre DEF Distinct
  <2> QED BY <1>1, <2>1, <2>2, <2>4, <2>5, <2>6
<1> DEFINE Valids == {s \in S!ToSet(slaves) : S!IsSlaveValid(filter, s)}
<1>3. ASSUME NEW chosen \in S!SelectWithFilter(slaves, count, filter)
      PROVE  Len(chosen) = S!Min({count, S!Cardinality(Valids)}) /\ S!ToSet(chosen) \subseteq Valids
  <2> DEFINE valid == S!Keep(slaves, Valids)
             free == {s \in S!ToSet(valid) : s.state = "idle" \/ s.running = 0}
             bound == S!ToSet(valid) \ free
             sorted == S!Keep(valid, free) \o S!Keep(valid, bound)
             offered == IF filter.preferIdle THEN sorted ELSE valid
  <2>1. chosen \in S!LeastLoaded(offered, count)
    BY DEF S!SelectWithFilter
  <2> HIDE DEF Valids
  <2>2. Distinct(valid, T) /\ Elements(valid) = Valids
    <3>1. \A s \in Valids : s \in Elements(slaves)
      BY <1>1 DEF Valids
    <3>2. Distinct(valid, T) /\ Elements(valid) = {x \in Elements(slaves) : x \in Valids}
      BY KeepIs
    <3> QED BY <3>1, <3>2
  <2> HIDE DEF valid
  <2>3. S!ToSet(valid) = Elements(valid)
    BY <2>2, ElementsAre DEF Distinct
  <2>4. free \cap bound = {} /\ free \cup bound = Elements(valid)
    BY <2>3
  <2> HIDE DEF free, bound
  <2>5. /\ Distinct(S!Keep(valid, free), T) /\ Elements(S!Keep(valid, free)) = {x \in Elements(valid) : x \in free}
        /\ Distinct(S!Keep(valid, bound), T) /\ Elements(S!Keep(valid, bound)) = {x \in Elements(valid) : x \in bound}
    BY <2>2, KeepIs
  <2>6. Distinct(sorted, T) /\ Elements(sorted) = Elements(valid)
    <3>1. Elements(S!Keep(valid, free)) \cap Elements(S!Keep(valid, bound)) = {}
      BY <2>4, <2>5
    <3>2. Distinct(sorted, T) /\ Elements(sorted) = Elements(S!Keep(valid, free)) \cup Elements(S!Keep(valid, bound))
      <4> DEFINE a == S!Keep(valid, free)
                 b == S!Keep(valid, bound)
      <4>1. Distinct(a, T) /\ Distinct(b, T) /\ Apart(a, b)
        BY <2>5, <3>1 DEF Apart
      <4> HIDE DEF a, b
      <4>2. HoldsBoth(a \o b, a, b, T)
        BY <4>1, ConcatIsDistinct
      <4> QED BY <4>2 DEF HoldsBoth, a, b
    <3> HIDE DEF sorted
    <3> QED BY <2>4, <2>5, <3>2
  <2> HIDE DEF sorted
  <2>7. Distinct(offered, T) /\ Elements(offered) = Valids
    BY <2>2, <2>6
  <2> HIDE DEF offered
  <2>8. \A s \in T : s.load \in Int
    BY DEF IsSlave
  <2>9. Selected(chosen, offered, count, T)
    BY <2>1, <2>7, <2>8, LeastLoadedSelects
  <2>10. Len(offered) = S!Cardinality(Valids)
    BY <2>7, DistinctLength, SameCardinality
  <2>11. S!ToSet(chosen) = Elements(chosen)
    BY <2>9, ElementsAre DEF Selected, Distinct
  <2> QED BY <2>7, <2>9, <2>10, <2>11 DEF Selected
<1>4. ASSUME NEW s \in Valids
      PROVE  /\ s.id \notin filter.excludeIDs /\ s.region \notin filter.excludeRegions
             /\ s.running > 0 => filter.allowReuse
             /\ s.running = 0 \/ s.running < s.maxConcurrency \/ s.maxConcurrency = 0
  <2>1. s.running \in Nat /\ s.maxConcurrency \in Nat
    <3>1. s \in T
      BY <1>1 DEF Elements
    <3> QED BY <3>1 DEF IsSlave
  <2>2. /\ s.id \notin filter.excludeIDs /\ s.region \notin filter.excludeRegions
        /\ ~filter.allowReuse => s.running = 0
        /\ s.maxConcurrency > 0 => s.running < s.maxConcurrency
    BY DEF S!IsSlaveValid
  <2> QED BY <2>1, <2>2
<1> QED BY <1>2, <1>3, <1>4 DEF S!FiltersHold

\* Of a pool of one slave the master's selector offers the slave, unless its entry says error.
LEMMA OfferIsHealthy ==
  ASSUME NEW info, info.state # "offline", NEW chosen \in S!Select(<<info>>, 1)
  PROVE  chosen = <<info>> <=> info.state # "error"
<1> DEFINE pool == <<info>>
           healthy == {x \in S!ToSet(pool) : x.state \notin {"offline", "error"}}
           offered == S!GetHealthy(pool)
<1>1. Distinct(pool, {info}) /\ Elements(pool) = {info} /\ S!ToSet(pool) = {info} /\ Len(pool) = 1
  BY DEF Distinct, Elements, S!ToSet
<1> HIDE DEF pool
<1>2. Distinct(offered, {info}) /\ Elements(offered) = {x \in Elements(pool) : x \in healthy}
  BY <1>1, KeepIs DEF S!GetHealthy
<1>3. Elements(offered) = IF info.state = "error" THEN {} ELSE {info}
  BY <1>1, <1>2
<1> HIDE DEF offered
<1>4. Len(offered) \in Nat /\ Len(offered) <= 1
  <2>1. Elements(offered) \subseteq Elements(pool)
    BY <1>1, <1>3
  <2>2. Len(offered) <= Len(pool)
    BY <1>1, <1>2, <2>1, SameLength
  <2> QED BY <1>1, <1>2, <2>2 DEF Distinct
<1>5. chosen = offered
  BY <1>4 DEF S!Select, S!GetSelector, S!LeastLoaded, pool, offered
<1>6. CASE info.state = "error"
  <2>1. offered # pool
    BY <1>1, <1>3, <1>6
  <2> QED BY <1>5, <1>6, <2>1 DEF pool
<1>7. CASE info.state # "error"
  <2>1. info \in {offered[i] : i \in 1 .. Len(offered)}
    BY <1>3, <1>7 DEF Elements
  <2>2. PICK i \in 1 .. Len(offered) : offered[i] = info
    BY <2>1
  <2>3. Len(offered) = 1 /\ offered[1] = info
    <3>1. \A n \in Nat : n <= 1 => \A j \in 1 .. n : j = 1 /\ n = 1
      OBVIOUS
    <3>2. i = 1 /\ Len(offered) = 1
      BY <1>4, <3>1
    <3> QED BY <2>2, <3>2
  <2>4. offered = <<info>>
    BY <1>2, <2>3 DEF Distinct
  <2> QED BY <1>5, <1>7, <2>4
<1> QED BY <1>6, <1>7

\* Slaves with different IDs, loads, cores and tasks; and weights.
ChoiceAssumption(SlaveInfos) ==
  /\ \A s \in SlaveInfos : IsSlave(s)
  /\ Lists \subseteq Seq(SlaveInfos) /\ \A slaves \in Lists : Different(slaves)
  /\ Counts \subseteq Nat
  /\ \A weights \in Weights : \A id \in DOMAIN weights : weights[id] \in Nat

LEMMA ChoiceIsSound ==
  ASSUME NEW SlaveInfos, ChoiceAssumption(SlaveInfos)
  PROVE  AllSelectAndSplit
<1>1. SUFFICES ASSUME NEW slaves \in Lists, NEW count \in Counts
               PROVE  /\ S!SelectorIsFair(slaves, count) /\ S!DefaultIsSized(slaves, count)
                      /\ \A weights \in Weights : S!SplitIsComplete(slaves, count, weights)
                      /\ \A ids \in IDs, filter \in SlaveFilters : S!FiltersHold(slaves, count, ids, filter)
  BY DEF S!SelectsSlaves, AllSelectAndSplit
<1>2. slaves \in Seq(SlaveInfos) /\ Different(slaves) /\ count \in Nat
  BY DEF ChoiceAssumption
<1>3. Distinct(slaves, SlaveInfos)
  BY <1>2 DEF Distinct, Different
<1>4. \A s \in SlaveInfos : s.load \in Int
  BY DEF IsSlave, ChoiceAssumption
<1>5. S!SelectorIsFair(slaves, count)
  BY <1>2, <1>3, <1>4, SelectorsAreFair
<1>6. \A weights \in Weights : S!SplitIsComplete(slaves, count, weights)
  BY <1>2, SplitsAreComplete DEF ChoiceAssumption
<1>7. \A ids \in IDs, filter \in SlaveFilters : S!FiltersHold(slaves, count, ids, filter)
  BY <1>2, <1>3, AllFiltersHold DEF ChoiceAssumption
<1>8. S!DefaultIsSized(slaves, count)
  BY <1>2, <1>3, DefaultIsAlwaysSized DEF ChoiceAssumption
<1> QED BY <1>5, <1>6, <1>7, <1>8

\* Whatever slaves with different IDs, with whatever load, cores and tasks, are on offer in
\* whatever order, however many slaves or workers are asked for, with whatever weights, named
\* IDs and filter: the selectors choose as many different slaves as they can of those they
\* should, the splitters give away all workers, the filters hold, and a slave of the pool is
\* offered unless its entry says error (selector.go, pool.go, filter.go, splitter.go).
THEOREM SlavesAlwaysSelected ==
  ASSUME NEW SlaveInfos, ChoiceAssumption(SlaveInfos)
  PROVE  Spec => []SelectsSlaves
<1>1. ASSUME TypeOK PROVE SelectsSlaves
  <2>1. SUFFICES ASSUME NEW s \in Slaves, Registered(s),
                        NEW pool \in Lists, Len(pool) = 1, pool[1].state = entry[s],
                        NEW chosen \in S!Select(pool, 1)
                 PROVE  chosen = pool <=> entry[s] # "error"
    BY ChoiceIsSound DEF SelectsSlaves
  <2>2. pool = <<pool[1]>>
    BY <2>1 DEF ChoiceAssumption
  <2>3. entry[s] # "offline"
    BY <1>1, <2>1 DEF TypeOK
  <2> QED BY <2>1, <2>2, <2>3, OfferIsHealthy
<1> QED BY <1>1, PoolTypeCorrect, PTL
=============================================================================
