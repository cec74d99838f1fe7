------------------------- MODULE RequestChainProofs -------------------------
(***************************************************************************)
(* Proofs about RequestChain, for any number of workers, passes, APIs and  *)
(* repetitions.  Group IDs of sequences of requests meet only where their  *)
(* numbers reach one another; a request is not sent only for a cause, if   *)
(* the chains are in the order of their dependencies; and it is made of    *)
(* values of its own pass.  All rest on where a worker is in its loops     *)
(* (IInv), the second on what the breaker has seen (BreakerInv) and on the *)
(* results of the pass under way (WorkerInv), as does the third            *)
(* (FreshInv).  What texts, values and rules do plays no part in any of    *)
(* them.  It does in the last one, ValuesAlwaysArrive: Exact says for      *)
(* which configurations.                                                   *)
(*                                                                         *)
(* The other sections are about operators: the rules (Verify), and the     *)
(* search and the selectors (Dependency), from which the order of a chain  *)
(* follows in turn.                                                        *)
(***************************************************************************)
EXTENDS RequestRules, SequenceTheorems, FiniteSetTheorems, WellFoundedInduction, TLAPS

Fields == {"pc", "pass", "at", "repetition", "vars", "failed", "name", "body", "attempts"}

\* A worker's place in its loops: the repetition is one of the API at hand.
Placed(state) ==
  /\ DOMAIN state = Fields
  /\ state.pc \in {"ready", "sending", "done"}
  /\ state.pass \in Nat /\ state.repetition \in Nat
  /\ state.at \in 1 .. Len(Selector.order)
  /\ state.pc # "done" => state.pass < ReqCount
  /\ Chain => state.repetition < Repeats(Selector.apis[Selector.order[state.at]])

\* The API at hand is the one of the place.
Named(state) == Chain => state.name = Selector.order[state.at]

PlaceInv ==
  /\ DOMAIN worker = Workers
  /\ \A w \in Workers : Placed(worker[w]) /\ (worker[w].pc = "sending" => Named(worker[w]))

\* The ID of a sequence of requests is the one of its place.
GroupOf(w, pass, repetition) ==
  [worker |-> w, pass |-> pass, repetition |-> repetition, id |-> GroupID(w, pass, repetition)]

GroupInv ==
  \A g \in groups : \E w \in Workers, pass \in Nat, repetition \in Nat : g = GroupOf(w, pass, repetition)

IInv == config \in Configurations /\ PlaceInv /\ GroupInv

-----------------------------------------------------------------------------
(* Where two IDs meet.                                                     *)

LEMMA Sums == \A m, n, k \in Nat : m * k \in Nat /\ (m + n) * k = m * k + n * k
OBVIOUS

\* Two sequences of one worker: one that comes more repetitions later comes passes earlier.
LEMMA SameWorker ==
  ASSUME NEW p \in Nat, NEW r \in Nat, NEW q \in Nat, NEW t \in Nat, NEW k \in Nat,
         p + r * k = q + t * k, r < t
  PROVE  p >= q + k
<1>1. PICK d \in Nat : t = r + (1 + d)
  <2>1. t - r - 1 \in Nat /\ t = r + (1 + (t - r - 1))
    OBVIOUS
  <2>2. QED BY <2>1
<1>2. t * k = r * k + (k + d * k) /\ r * k \in Nat /\ d * k \in Nat
  <2>1. t * k = r * k + (1 + d) * k
    BY ONLY <1>1, Sums, 1 + d \in Nat
  <2>2. (1 + d) * k = k + d * k
    OBVIOUS
  <2>3. QED BY <2>1, <2>2, Sums
<1>3. QED BY <1>2

\* Two workers: the lower one reaches the ID that the other one starts from.
LEMMA OtherWorker ==
  ASSUME NEW w \in Nat, NEW v \in Nat, w < v, NEW x \in Nat, NEW y \in Nat, NEW k \in Nat,
         (w + 1) * k + x = (v + 1) * k + y
  PROVE  x >= k
<1>1. PICK d \in Nat : v + 1 = (w + 1) + (1 + d)
  <2>1. v - w - 1 \in Nat /\ v + 1 = (w + 1) + (1 + (v - w - 1))
    OBVIOUS
  <2>2. QED BY <2>1
<1>2. (v + 1) * k = (w + 1) * k + (k + d * k) /\ (w + 1) * k \in Nat /\ d * k \in Nat
  <2>1. (v + 1) * k = (w + 1) * k + (1 + d) * k
    BY ONLY <1>1, Sums, 1 + d \in Nat, w + 1 \in Nat
  <2>2. (1 + d) * k = k + d * k
    OBVIOUS
  <2>3. QED BY <2>1, <2>2, Sums, w + 1 \in Nat
<1>3. QED BY <1>2

-----------------------------------------------------------------------------
(* The configuration.                                                      *)

LEMMA Order ==
  ASSUME config \in Configurations
  PROVE  /\ Len(Selector.order) \in Nat \ {0}
         /\ \A i \in 1 .. Len(Selector.order) : Selector.order[i] \in DOMAIN Selector.apis
         /\ \A name \in DOMAIN Selector.apis : Repeats(Selector.apis[name]) \in Nat \ {0}
<1>1. Selector.order \in Seq(DOMAIN Selector.apis) /\ Selector.order # << >>
  BY RequestChainAssumption DEF Selector
<1>2. Len(Selector.order) \in Nat \ {0}
  BY <1>1
<1>3. \A i \in 1 .. Len(Selector.order) : Selector.order[i] \in DOMAIN Selector.apis
  BY <1>1
<1>4. \A name \in DOMAIN Selector.apis : Selector.apis[name].repeat \in Nat
  BY RequestChainAssumption DEF Selector
<1>5. \A name \in DOMAIN Selector.apis : Repeats(Selector.apis[name]) \in Nat \ {0}
  BY <1>4 DEF Repeats
<1>6. QED BY <1>2, <1>3, <1>5

-----------------------------------------------------------------------------
(* The steps.                                                              *)

\* The next place in the three loops.
LEMMA AdvancePlaced ==
  ASSUME config \in Configurations, NEW w \in Workers, NEW state,
         Placed(state), state.pc # "done", Named(state)
  PROVE  Placed(Advance(w, state)) /\ Advance(w, state).pc # "sending"
<1> DEFINE api == Selector.apis[state.name]
<1> USE RequestChainAssumption, Order DEF Placed, Fields
<1>1. CASE Chain /\ state.repetition + 1 < Repeats(api)
  <2>1. Advance(w, state) = [state EXCEPT !.pc = "ready", !.repetition = state.repetition + 1]
    BY <1>1 DEF Advance
  <2>2. state.repetition + 1 < Repeats(Selector.apis[Selector.order[state.at]])
    BY ONLY <1>1, Named(state) DEF Named
  <2>3. QED BY ONLY <2>1, <2>2, Placed(state), state.pc # "done" DEF Placed, Fields
<1>2. CASE ~(Chain /\ state.repetition + 1 < Repeats(api)) /\ Chain /\ state.at < Len(Selector.order)
  <2>1. Advance(w, state) = [state EXCEPT !.pc = "ready", !.at = state.at + 1, !.repetition = 0]
    BY <1>2 DEF Advance
  <2>2. state.at + 1 \in 1 .. Len(Selector.order)
    BY <1>2
  <2>3. 0 < Repeats(Selector.apis[Selector.order[state.at + 1]])
    <3>1. Selector.order[state.at + 1] \in DOMAIN Selector.apis
      BY <2>2, Order
    <3>2. Repeats(Selector.apis[Selector.order[state.at + 1]]) \in Nat \ {0}
      BY <3>1, Order
    <3>3. QED BY <3>2
  <2>4. QED BY <2>1, <2>2, <2>3
<1>3. CASE /\ ~(Chain /\ state.repetition + 1 < Repeats(api))
           /\ ~(Chain /\ state.at < Len(Selector.order))
  <2>1. Advance(w, state) = [Start(state.pass + 1) EXCEPT
                               !.pc = IF state.pass + 1 < ReqCount THEN "ready" ELSE "done"]
    BY <1>3 DEF Advance
  <2>2. 1 \in 1 .. Len(Selector.order) /\ 0 < Repeats(Selector.apis[Selector.order[1]])
    OBVIOUS
  <2>3. QED BY <2>1, <2>2 DEF Start
<1>4. QED BY <1>1, <1>2, <1>3

\* Whatever the result, collecting it keeps the worker in place and gives the right ID.
LEMMA CollectInv ==
  ASSUME IInv, NEW w \in Workers, NEW state, Placed(state), state.pc # "done", Named(state),
         NEW result, Collect(w, state, result), config' = config
  PROVE  IInv'
<1> USE DEF IInv
<1>1. worker' = [worker EXCEPT ![w] = Advance(w, state)]
  BY DEF Collect
<1>2. PlaceInv'
  <2>1. ASSUME NEW v \in Workers
        PROVE  Placed(worker'[v]) /\ (worker'[v].pc = "sending" => Named(worker'[v]))
    <3>1. CASE v = w
      BY <1>1, <3>1, AdvancePlaced DEF PlaceInv
    <3>2. CASE v # w
      BY <1>1, <3>2 DEF PlaceInv
    <3>3. QED BY <3>1, <3>2
  <2>2. DOMAIN worker' = Workers
    BY <1>1 DEF PlaceInv
  <2>3. QED BY <2>1, <2>2 DEF PlaceInv, Placed, Named, Selector, Chain
<1>3. GroupInv'
  <2>1. CASE ~Chain
    BY <2>1 DEF Collect, GroupInv
  <2>2. CASE Chain
    <3>1. groups' = groups \cup {GroupOf(w, state.pass, state.repetition)}
      BY <2>2 DEF Collect, GroupOf
    <3>2. state.pass \in Nat /\ state.repetition \in Nat
      BY DEF Placed
    <3>3. QED BY <3>1, <3>2 DEF GroupInv
  <2>3. QED BY <2>1, <2>2
<1>4. QED BY <1>2, <1>3

\* A step that leaves the collected alone and a worker in place.
LEMMA SteppedInv ==
  ASSUME IInv, NEW w \in Workers, NEW state, Placed(state), state.pc = "sending" => Named(state),
         worker' = [worker EXCEPT ![w] = state], UNCHANGED <<config, groups>>
  PROVE  IInv'
<1>1. GroupInv'
  BY DEF IInv, GroupInv
<1>2. ASSUME NEW v \in Workers
      PROVE  Placed(worker'[v]) /\ (worker'[v].pc = "sending" => Named(worker'[v]))
  <2>1. CASE v = w
    BY <2>1 DEF IInv, PlaceInv
  <2>2. CASE v # w
    BY <2>2 DEF IInv, PlaceInv
  <2>3. QED BY <2>1, <2>2
<1>3. QED BY <1>1, <1>2 DEF IInv, PlaceInv, Placed, Named, Selector, Chain

\* The end of a request only adds values and failures to the state.
LEMMA CompleteInv ==
  ASSUME IInv, NEW w \in Workers, NEW state, Placed(state), state.pc # "done", Named(state),
         NEW failed, NEW messages, NEW refused, Complete(w, state, failed, messages, refused),
         config' = config
  PROVE  IInv'
<1>1. PICK vs, fs, result : Collect(w, [state EXCEPT !.vars = vs, !.failed = fs], result)
  BY DEF Complete
<1>2. /\ Placed([state EXCEPT !.vars = vs, !.failed = fs])
      /\ Named([state EXCEPT !.vars = vs, !.failed = fs])
      /\ [state EXCEPT !.vars = vs, !.failed = fs].pc # "done"
  BY DEF Placed, Named, Fields
<1>3. QED BY <1>1, <1>2, CollectInv

\* The request at hand is the one of the place.
LEMMA BuiltPlaced ==
  ASSUME IInv, NEW w \in Workers, worker[w].pc = "ready", NEW name \in NextRequest(w)
  PROVE  /\ Placed(BuildRequest(w, name)) /\ Named(BuildRequest(w, name))
         /\ BuildRequest(w, name).pc = "sending"
         /\ Placed([worker[w] EXCEPT !.name = name]) /\ Named([worker[w] EXCEPT !.name = name])
         /\ [worker[w] EXCEPT !.name = name].pc = "ready"
<1>1. Placed(worker[w])
  BY DEF IInv, PlaceInv
<1>2. Chain => name = Selector.order[worker[w].at]
  BY DEF NextRequest, Chain
<1>3. QED BY <1>1, <1>2 DEF Placed, Named, Fields, BuildRequest

LEMMA InitInv == Init => IInv
<1> SUFFICES ASSUME Init PROVE IInv
  OBVIOUS
<1>1. config \in Configurations
  BY DEF Init
<1>2. ASSUME NEW w \in Workers PROVE Placed(worker[w]) /\ worker[w].pc # "sending"
  BY <1>1, Order, RequestChainAssumption DEF Init, Start, Placed, Fields
<1>3. QED BY <1>1, <1>2 DEF Init, IInv, PlaceInv, GroupInv

LEMMA InvStep == IInv /\ [Next]_vars => IInv'
<1> SUFFICES ASSUME IInv, [Next]_vars PROVE IInv'
  OBVIOUS
<1>1. CASE ResetTimeout \/ UNCHANGED vars
  BY <1>1 DEF ResetTimeout, vars, IInv, PlaceInv, GroupInv, Placed, Named, Selector, Chain
<1>2. ASSUME NEW w \in Workers, Skip(w) PROVE IInv'
  <2>1. PICK name \in NextRequest(w) :
          \E result : Collect(w, [worker[w] EXCEPT !.name = name], result)
    BY <1>2 DEF Skip
  <2>2. PICK result : Collect(w, [worker[w] EXCEPT !.name = name], result)
    BY <2>1
  <2>3. worker[w].pc = "ready" /\ config' = config
    BY <1>2 DEF Skip
  <2>4. QED BY <2>2, <2>3, BuiltPlaced, CollectInv
<1>3. ASSUME NEW w \in Workers, Begin(w) PROVE IInv'
  <2>1. PICK name \in NextRequest(w) : worker' = [worker EXCEPT ![w] = BuildRequest(w, name)]
    BY <1>3 DEF Begin
  <2>2. worker[w].pc = "ready" /\ UNCHANGED <<config, groups>>
    BY <1>3 DEF Begin
  <2>3. QED BY <2>1, <2>2, BuiltPlaced, SteppedInv
<1>4. ASSUME NEW w \in Workers, Refuse(w) PROVE IInv'
  <2>1. PICK name \in NextRequest(w) : Complete(w, BuildRequest(w, name), TRUE, None, TRUE)
    BY <1>4 DEF Refuse
  <2>2. worker[w].pc = "ready" /\ config' = config
    BY <1>4 DEF Refuse
  <2>3. QED BY <2>1, <2>2, BuiltPlaced, CompleteInv
<1>5. ASSUME NEW w \in Workers, NEW kind \in Kinds, Retry(w, kind) PROVE IInv'
  <2> DEFINE state == [worker[w] EXCEPT !.attempts = worker[w].attempts + 1]
  <2>1. /\ worker[w].pc = "sending" /\ UNCHANGED <<config, groups>>
        /\ worker' = [worker EXCEPT ![w] = state]
    BY <1>5 DEF Retry, IInv, PlaceInv
  <2>2. Placed(worker[w]) /\ Named(worker[w])
    BY <2>1 DEF IInv, PlaceInv
  <2>3. Placed(state) /\ Named(state)
    BY <2>2 DEF Placed, Named, Fields
  <2>4. QED BY <2>1, <2>3, SteppedInv
<1>6. ASSUME NEW w \in Workers, NEW kind \in Kinds, Send(w, kind) PROVE IInv'
  <2> DEFINE state == [worker[w] EXCEPT !.attempts = worker[w].attempts + 1]
  <2>1. /\ worker[w].pc = "sending" /\ config' = config
        /\ Complete(w, state, kind \in Failing, Answer(w, state, kind), FALSE)
    BY <1>6 DEF Send
  <2>2. Placed(worker[w]) /\ Named(worker[w])
    BY <2>1 DEF IInv, PlaceInv
  <2>3. Placed(state) /\ Named(state) /\ state.pc # "done"
    BY <2>1, <2>2 DEF Placed, Named, Fields
  <2> HIDE DEF state
  <2>4. QED BY <2>1, <2>3, CompleteInv
<1>7. QED BY <1>1, <1>2, <1>3, <1>4, <1>5, <1>6 DEF Next, Done

-----------------------------------------------------------------------------

\* Two sequences of requests get one group ID only if their repetitions differ and their
\* passes are Offset or more apart, or if one of two workers makes so many passes or
\* repetitions that it reaches the other's IDs.
THEOREM GroupsAlwaysTellApart == Spec => []GroupsTellApart
<1>1. IInv => GroupsTellApart
  <2> SUFFICES ASSUME IInv, NEW g \in groups, NEW h \in groups, g.id = h.id, g # h
               PROVE  IF g.worker = h.worker
                      THEN /\ g.repetition # h.repetition
                           /\ g.pass >= h.pass + Offset \/ h.pass >= g.pass + Offset
                      ELSE Reach(g) >= Stride \/ Reach(h) >= Stride
    BY DEF GroupsTellApart
  <2>1. PICK w \in Workers, p \in Nat, r \in Nat : g = GroupOf(w, p, r)
    BY DEF IInv, GroupInv
  <2>2. PICK v \in Workers, q \in Nat, t \in Nat : h = GroupOf(v, q, t)
    BY DEF IInv, GroupInv
  <2>3. w \in Nat /\ v \in Nat /\ Offset \in Nat /\ Stride \in Nat
    BY RequestChainAssumption
  <2>4. /\ g.worker = w /\ g.pass = p /\ g.repetition = r
        /\ h.worker = v /\ h.pass = q /\ h.repetition = t
    BY <2>1, <2>2 DEF GroupOf
  <2>5. GroupID(w, p, r) = GroupID(v, q, t)
    BY <2>1, <2>2 DEF GroupOf
  <2>6. /\ r * Offset \in Nat /\ t * Offset \in Nat
        /\ (w + 1) * Stride \in Nat /\ (v + 1) * Stride \in Nat
    BY <2>3, Sums, w + 1 \in Nat, v + 1 \in Nat
  <2>7. (w + 1) * Stride + (p + r * Offset) = (v + 1) * Stride + (q + t * Offset)
    BY <2>5, <2>6 DEF GroupID
  <2>8. CASE w = v
    <3>1. p + r * Offset = q + t * Offset
      BY <2>6, <2>7, <2>8
    <3>2. r # t
      <4>1. r = t => p = q
        BY <2>6, <3>1
      <4>2. QED BY <2>1, <2>2, <2>8, <4>1
    <3>3. r < t \/ t < r
      BY <3>2
    <3>4. p >= q + Offset \/ q >= p + Offset
      BY ONLY <2>3, <3>1, <3>3, SameWorker, p \in Nat, q \in Nat, r \in Nat, t \in Nat
    <3>5. QED BY <2>4, <2>8, <3>2, <3>4
  <2>9. CASE w # v
    <3>1. p + r * Offset \in Nat /\ q + t * Offset \in Nat
      BY <2>6
    <3>2. p + r * Offset >= Stride \/ q + t * Offset >= Stride
      <4>1. w < v \/ v < w
        BY <2>3, <2>9
      <4>2. QED BY ONLY <2>3, <2>7, <3>1, <4>1, OtherWorker
    <3>3. QED BY <2>4, <2>9, <3>2 DEF Reach
  <2>10. QED BY <2>8, <2>9
<1>2. QED BY InitInv, InvStep, <1>1, PTL DEF Spec

-----------------------------------------------------------------------------
(* Requests that are not sent.                                             *)

\* As long as the breaker has not seen MaxFailures failures in a row, it is closed and counts
\* them.
BreakerInv ==
  /\ circuit \in [state : {"closed", "open", "half"}, failures : Nat, successes : Nat]
  /\ streak \in 0 .. MaxFailures
  /\ streak # MaxFailures => circuit.state = "closed" /\ circuit.failures = streak

RefusedInv == \A w \in Workers : \A r \in results[w] : r.refused => streak = MaxFailures

Deps(name) == ToSet(Selector.apis[name].dependsOn)

Failures(R, r) == {f \in R : f.name \in Deps(r.name) /\ f.marked}

\* What R has of a result is what UnsentHasCause says of a chain.
Explained(R, r) ==
  /\ r.skipped <=> Failures(R, r) # {}
  /\ r.skipped => r.cause = {f.name : f \in Failures(R, r)}
  /\ \A dep \in Deps(r.name) : \E f \in R : f.name = dep

\* R has a result of each of the first m APIs of the chain, and of no other.
Covers(R, m) ==
  /\ \A r \in R : \E i \in 1 .. m : r.name = Selector.order[i]
  /\ \A i \in 1 .. m : \E r \in R : r.name = Selector.order[i]

\* The names of the APIs that a result says have failed.
FailedIn(R) == {f.name : f \in {r \in R : r.marked}}

Tried(state) == IF state.repetition > 0 THEN state.at ELSE state.at - 1

\* The results of the pass under way: those collected, or none yet.
Current(w) == {r \in results[w] : r.pass = worker[w].pass}

\* Of a worker in a chain.
WorkerInv(w) ==
  /\ Current(w) = results[w] \/ Current(w) = {}
  /\ Covers(Current(w), Tried(worker[w]))
  /\ worker[w].failed = FailedIn(Current(w))
  /\ worker[w].pc = "sending" => Deps(worker[w].name) \cap worker[w].failed = {}
  /\ \A r \in results[w] : Explained(results[w], r)

ChainInv == Chain => \A w \in Workers : WorkerInv(w)

ResultsInv == DOMAIN results = Workers

\* An API depends on earlier ones only.
LEMMA DependsOnEarlier ==
  ASSUME Ordered, config \in Configurations, Chain, NEW i \in 1 .. Len(Selector.order)
  PROVE  /\ \A dep \in Deps(Selector.order[i]) : \E j \in 1 .. i - 1 : dep = Selector.order[j]
         /\ \A j \in 1 .. Len(Selector.order) : Selector.order[j] = Selector.order[i] => j = i
<1>1. DOMAIN Selector.order = 1 .. Len(Selector.order)
  <2>1. Selector.order \in Seq(DOMAIN Selector.apis)
    BY RequestChainAssumption DEF Selector
  <2> QED
    BY <2>1
<1>2. /\ ToSet(Selector.apis[Selector.order[i]].dependsOn) \subseteq {Selector.order[j] : j \in 1 .. i - 1}
      /\ \A j \in DOMAIN Selector.order : Selector.order[j] = Selector.order[i] => j = i
  BY <1>1 DEF Ordered, Chain, Selector
<1> QED
  BY <1>1, <1>2 DEF Deps

\* One more result: of an API that none of the pass so far depends on.
LEMMA OneMore ==
  ASSUME Ordered, config \in Configurations, Chain, NEW C, NEW new,
         NEW k \in 1 .. Len(Selector.order), new.name = Selector.order[k],
         NEW m \in {k - 1, k}, Covers(C, m), \A r \in C : Explained(C, r),
         new.skipped <=> Deps(new.name) \cap FailedIn(C) # {},
         new.skipped => new.cause = Deps(new.name) \cap FailedIn(C)
  PROVE  /\ \A r \in C \cup {new} : Explained(C \cup {new}, r)
         /\ Covers(C \cup {new}, k)
<1>1. Len(Selector.order) \in Nat /\ k \in Nat
  BY Order
<1>2. \A r \in C \cup {new} : \E i \in 1 .. k : r.name = Selector.order[i]
  <2>1. \A i \in 1 .. m : i \in 1 .. k
    BY <1>1
  <2>2. k \in 1 .. k
    BY <1>1
  <2>3. \A r \in C : \E i \in 1 .. m : r.name = Selector.order[i]
    BY DEF Covers
  <2> QED
    BY <2>1, <2>2, <2>3
<1>3. ASSUME NEW r \in C \cup {new} PROVE new.name \notin Deps(r.name)
  <2>1. PICK i \in 1 .. k : r.name = Selector.order[i]
    BY <1>2
  <2>2. i \in 1 .. Len(Selector.order)
    BY <1>1
  <2>3. \A dep \in Deps(r.name) : \E j \in 1 .. i - 1 : dep = Selector.order[j]
    <3>1. \A dep \in Deps(Selector.order[i]) : \E j \in 1 .. i - 1 : dep = Selector.order[j]
      BY <2>2, DependsOnEarlier
    <3> QED
      BY <2>1, <3>1
  <2>4. \A j \in 1 .. i - 1 : j \in 1 .. Len(Selector.order) /\ j # k
    BY <1>1
  <2>5. \A j \in 1 .. Len(Selector.order) : Selector.order[j] = Selector.order[k] => j = k
    BY DependsOnEarlier
  <2> QED
    BY <2>3, <2>4, <2>5
<1>4. \A r \in C \cup {new} : Failures(C \cup {new}, r) = Failures(C, r)
  BY <1>3 DEF Failures
<1>5. ASSUME NEW r \in C PROVE Explained(C \cup {new}, r)
  BY <1>4 DEF Explained
<1>6. Explained(C \cup {new}, new)
  <2>1. {f.name : f \in Failures(C, new)} = Deps(new.name) \cap FailedIn(C)
    BY DEF Failures, FailedIn
  <2>2. Failures(C, new) # {} <=> Deps(new.name) \cap FailedIn(C) # {}
    BY <2>1
  <2>3. \A dep \in Deps(new.name) : \E f \in C : f.name = dep
    <3> TAKE dep \in Deps(new.name)
    <3>1. PICK j \in 1 .. k - 1 : dep = Selector.order[j]
      BY DependsOnEarlier
    <3>2. j \in 1 .. m
      BY <1>1
    <3> QED
      BY <3>1, <3>2 DEF Covers
  <2> QED
    BY <1>4, <2>1, <2>2, <2>3 DEF Explained
<1>7. Covers(C \cup {new}, k)
  <2>1. ASSUME NEW i \in 1 .. k PROVE \E r \in C \cup {new} : r.name = Selector.order[i]
    <3>1. CASE i = k
      BY <3>1
    <3>2. CASE i # k
      <4>1. i \in 1 .. m
        BY <1>1, <3>2
      <4> QED
        BY <4>1 DEF Covers
    <3> QED
      BY <3>1, <3>2
  <2> QED
    BY <1>2, <2>1 DEF Covers
<1> QED
  BY <1>5, <1>6, <1>7

\* Whatever is collected keeps what is known of the pass.
LEMMA CollectWorker ==
  ASSUME Ordered, IInv, ResultsInv, Chain, NEW w \in Workers, WorkerInv(w),
         NEW state, Placed(state), Named(state), state.pass = worker[w].pass,
         state.at = worker[w].at, state.repetition = worker[w].repetition, NEW result,
         state.failed = worker[w].failed \cup (IF result.marked THEN {state.name} ELSE {}),
         result.skipped <=> Deps(state.name) \cap worker[w].failed # {},
         result.skipped => result.cause = Deps(state.name) \cap worker[w].failed,
         Collect(w, state, result), config' = config
  PROVE  WorkerInv(w)'
<1>1. PICK new : /\ results' = [results EXCEPT ![w] = {r \in results[w] : r.pass = state.pass} \cup {new}]
                 /\ new.pass = state.pass /\ new.name = state.name /\ new.skipped = result.skipped
                 /\ new.marked = result.marked /\ new.cause = result.cause
  <2> DEFINE placed ==
        [pass |-> state.pass, at |-> state.at, name |-> state.name, repetition |-> state.repetition,
         skipped |-> result.skipped, success |-> result.success, refused |-> result.refused,
         marked |-> result.marked, body |-> result.body, extracted |-> result.extracted,
         attempts |-> result.attempts, cause |-> result.cause]
  <2>1. results' = [results EXCEPT ![w] = {r \in results[w] : r.pass = state.pass} \cup {placed}]
    BY DEF Collect
  <2>2. /\ placed.pass = state.pass /\ placed.name = state.name /\ placed.skipped = result.skipped
        /\ placed.marked = result.marked /\ placed.cause = result.cause
    OBVIOUS
  <2> HIDE DEF placed
  <2> QED
    BY <2>1, <2>2
<1>2. PICK C : C = Current(w)
  OBVIOUS
<1>3. results'[w] = C \cup {new}
  BY <1>1, <1>2 DEF Current, ResultsInv
<1>4. PICK k : k = state.at
  OBVIOUS
<1>5. /\ k \in 1 .. Len(Selector.order) /\ Len(Selector.order) \in Nat /\ k \in Nat
      /\ state.repetition \in Nat /\ state.pass \in Nat
  BY <1>4, Order DEF Placed, IInv
<1>6. PICK m : m = Tried(worker[w])
  OBVIOUS
<1>7. m \in {k - 1, k} /\ Covers(C, m)
  BY <1>2, <1>4, <1>6 DEF WorkerInv, Tried
<1>8. \A r \in C : Explained(C, r)
  BY <1>2 DEF WorkerInv
<1>9. worker[w].failed = FailedIn(C)
  BY <1>2 DEF WorkerInv
<1>11. new.name = Selector.order[k]
  BY <1>1, <1>4 DEF Named
<1>12. /\ \A r \in C \cup {new} : Explained(C \cup {new}, r)
       /\ Covers(C \cup {new}, k)
  <2>1. /\ new.skipped <=> Deps(new.name) \cap FailedIn(C) # {}
        /\ new.skipped => new.cause = Deps(new.name) \cap FailedIn(C)
    BY <1>1, <1>9
  <2> QED
    <3>1. config \in Configurations
      BY DEF IInv
    <3> QED
      BY <1>5, <1>7, <1>8, <1>11, <2>1, <3>1, OneMore
<1>13. state.failed = FailedIn(C \cup {new})
  <2>1. FailedIn(C \cup {new}) = FailedIn(C) \cup (IF new.marked THEN {new.name} ELSE {})
    BY DEF FailedIn
  <2> QED
    BY <1>1, <1>9, <2>1
<1>14. \A r \in C : r.pass = state.pass
  BY <1>2 DEF Current
<1>15. (\A r \in results[w] : Explained(results[w], r))'
  BY <1>3, <1>12 DEF Explained, Failures, Deps, Selector
<1>16. worker'[w] = Advance(w, state)
  BY DEF Collect, IInv, PlaceInv
<1>17. PICK next : next = Advance(w, state)
  OBVIOUS
<1>18. next.pc # "sending"
  BY <1>17 DEF Advance, Placed, Fields, Start
<1>19. CASE /\ next.pass = state.pass /\ next.failed = state.failed
            /\ Tried(next) = k
  <2>1. Current(w)' = C \cup {new}
    BY <1>1, <1>3, <1>14, <1>16, <1>17, <1>19 DEF Current
  <2>2. Covers(Current(w), Tried(worker[w]))'
    BY <1>12, <1>16, <1>17, <1>19, <2>1 DEF Covers, Tried, Selector
  <2> QED
    BY <1>3, <1>13, <1>15, <1>16, <1>17, <1>18, <1>19, <2>1, <2>2 DEF WorkerInv
<1>20. CASE /\ next.pass = state.pass + 1 /\ next.failed = {}
            /\ Tried(next) = 0
  <2>1. Current(w)' = {}
    BY <1>1, <1>3, <1>5, <1>14, <1>16, <1>17, <1>20 DEF Current
  <2>2. Covers(Current(w), Tried(worker[w]))'
    BY <1>16, <1>17, <1>20, <2>1 DEF Covers, Tried
  <2>3. FailedIn({}) = {}
    BY DEF FailedIn
  <2> QED
    BY <1>3, <1>15, <1>16, <1>17, <1>18, <1>20, <2>1, <2>2, <2>3 DEF WorkerInv
<1> QED
  <2> DEFINE api == Selector.apis[state.name]
  <2>1. CASE state.repetition + 1 < Repeats(api)
    <3>1. next = [state EXCEPT !.pc = "ready", !.repetition = state.repetition + 1]
      BY <1>17, <2>1 DEF Advance
    <3> QED
      BY <1>4, <1>5, <1>19, <3>1 DEF Tried, Placed, Fields
  <2>2. CASE ~(state.repetition + 1 < Repeats(api)) /\ state.at < Len(Selector.order)
    <3>1. next = [state EXCEPT !.pc = "ready", !.at = state.at + 1, !.repetition = 0]
      BY <1>17, <2>2 DEF Advance
    <3> QED
      BY <1>4, <1>5, <1>19, <3>1 DEF Tried, Placed, Fields
  <2>3. CASE ~(state.repetition + 1 < Repeats(api)) /\ ~(state.at < Len(Selector.order))
    <3>1. next = [Start(state.pass + 1) EXCEPT
                    !.pc = IF state.pass + 1 < ReqCount THEN "ready" ELSE "done"]
      BY <1>17, <2>3 DEF Advance
    <3> QED
      BY <1>20, <3>1 DEF Tried, Start
  <2> QED
    BY <2>1, <2>2, <2>3

\* A worker that collects nothing keeps what it knows, and may take an API on.
LEMMA KeepsWorker ==
  ASSUME NEW w \in Workers, WorkerInv(w), config' = config, results'[w] = results[w],
         worker'[w].pass = worker[w].pass, worker'[w].at = worker[w].at,
         worker'[w].repetition = worker[w].repetition, worker'[w].failed = worker[w].failed,
         worker'[w].pc = "sending" => Deps(worker'[w].name) \cap worker[w].failed = {}
  PROVE  WorkerInv(w)'
<1>1. (worker[w].pc = "sending" => Deps(worker[w].name) \cap worker[w].failed = {})'
  BY DEF Deps, Selector
<1>2. /\ Current(w)' = Current(w) /\ Tried(worker[w])' = Tried(worker[w])
      /\ Selector' = Selector
  BY DEF Current, Tried, Selector
<1>3. Covers(Current(w), Tried(worker[w]))'
  BY <1>2 DEF WorkerInv, Covers
<1>4. (\A r \in results[w] : Explained(results[w], r))'
  BY <1>2 DEF WorkerInv, Explained, Failures, Deps
<1>5. (worker[w].failed = FailedIn(Current(w)))'
  BY <1>2 DEF WorkerInv, FailedIn
<1> QED
  BY <1>1, <1>2, <1>3, <1>4, <1>5 DEF WorkerInv

\* The breaker stays closed, with all of the failures counted, until there were MaxFailures in
\* a row.
LEMMA BreakerStep == BreakerInv /\ [Next]_vars => BreakerInv'
<1> SUFFICES ASSUME BreakerInv, [Next]_vars PROVE BreakerInv'
  OBVIOUS
<1> USE RequestChainAssumption
<1>1. CASE ResetTimeout
  BY <1>1 DEF ResetTimeout, BreakerInv, Closed
<1>2. ASSUME NEW w \in Workers, NEW kind \in Kinds, Send(w, kind) PROVE BreakerInv'
  <2> DEFINE failed == kind \in Failing
  <2>1. CASE ~config.options.breaker
    BY <1>2, <2>1 DEF Send, BreakerInv
  <2>2. CASE config.options.breaker
    <3>1. /\ circuit' = Counted(circuit, failed)
          /\ streak' = IF streak = MaxFailures THEN streak ELSE IF failed THEN streak + 1 ELSE 0
      BY <1>2, <2>2 DEF Send
    <3> HIDE DEF failed
    <3>2. circuit' \in [state : {"closed", "open", "half"}, failures : Nat, successes : Nat]
      BY <3>1 DEF Counted, BreakerInv, Closed
    <3>3. CASE streak = MaxFailures
      BY <3>1, <3>2, <3>3 DEF BreakerInv
    <3>4. CASE streak # MaxFailures
      <4>1. circuit.state = "closed" /\ circuit.failures = streak /\ streak + 1 \in 0 .. MaxFailures
        BY <3>4 DEF BreakerInv
      <4>2. CASE failed
        <5>1. circuit' = IF streak + 1 < MaxFailures THEN [circuit EXCEPT !.failures = streak + 1]
                         ELSE [Closed EXCEPT !.state = "open"]
          BY <3>1, <4>1, <4>2 DEF Counted
        <5>2. streak' = streak + 1
          BY <3>1, <3>4, <4>2
        <5> QED
          BY <3>2, <4>1, <5>1, <5>2 DEF BreakerInv
      <4>3. CASE ~failed
        <5>1. circuit' = Closed /\ streak' = 0
          BY <3>1, <3>4, <4>1, <4>3 DEF Counted
        <5> QED
          BY <3>2, <5>1 DEF BreakerInv, Closed
      <4> QED
        BY <4>2, <4>3
    <3> QED
      BY <3>3, <3>4
  <2> QED
    BY <2>1, <2>2
<1>3. CASE UNCHANGED <<circuit, streak>>
  BY <1>3 DEF BreakerInv
<1> QED
  BY <1>1, <1>2, <1>3 DEF Next, Skip, Begin, Refuse, Retry, Done, vars

\* What a worker adds to the results.
LEMMA CollectResults ==
  ASSUME ResultsInv, NEW w \in Workers, NEW state, NEW result, Collect(w, state, result)
  PROVE  /\ ResultsInv'
         /\ \A v \in Workers \ {w} : results'[v] = results[v] /\ worker'[v] = worker[v]
         /\ \A r \in results'[w] : r \in results[w] \/ r.refused = result.refused
BY DEF Collect, ResultsInv

CauseInv == ResultsInv /\ RefusedInv /\ ChainInv

\* A step that collects a result, whose worker is where it was when it took the API on.
LEMMA CollectCause ==
  ASSUME Ordered, IInv, CauseInv, NEW w \in Workers, NEW state, Placed(state), Named(state),
         state.pass = worker[w].pass, state.at = worker[w].at,
         state.repetition = worker[w].repetition, NEW result,
         state.failed = worker[w].failed \cup (IF result.marked THEN {state.name} ELSE {}),
         Chain => /\ result.skipped <=> Deps(state.name) \cap worker[w].failed # {}
                  /\ result.skipped => result.cause = Deps(state.name) \cap worker[w].failed,
         result.refused => streak = MaxFailures, streak = MaxFailures => streak' = MaxFailures,
         Collect(w, state, result), config' = config
  PROVE  CauseInv'
<1>1. ResultsInv /\ RefusedInv
  BY DEF CauseInv
<1>2. /\ ResultsInv'
      /\ \A v \in Workers \ {w} : results'[v] = results[v] /\ worker'[v] = worker[v]
      /\ \A r \in results'[w] : r \in results[w] \/ r.refused = result.refused
  BY <1>1, CollectResults
<1>3. RefusedInv'
  BY <1>1, <1>2 DEF RefusedInv
<1>4. ASSUME Chain, NEW v \in Workers PROVE WorkerInv(v)'
  <2>1. WorkerInv(v) /\ WorkerInv(w)
    BY <1>4 DEF CauseInv, ChainInv
  <2>2. CASE v = w
    BY <1>1, <1>4, <2>1, <2>2, CollectWorker
  <2>3. CASE v # w
    <3>1. results'[v] = results[v] /\ worker'[v] = worker[v]
      BY <1>2, <2>3
    <3>2. worker'[v].pc = "sending" => Deps(worker'[v].name) \cap worker[v].failed = {}
      BY <2>1, <3>1 DEF WorkerInv
    <3> QED
      BY <2>1, <3>1, <3>2, KeepsWorker
  <2> QED
    BY <2>2, <2>3
<1>5. Chain' <=> Chain
  BY DEF Chain, Selector
<1> QED
  BY <1>2, <1>3, <1>4, <1>5 DEF CauseInv, ChainInv

\* The end of a request that was sent, or refused.
LEMMA CompleteCause ==
  ASSUME Ordered, IInv, CauseInv, NEW w \in Workers, NEW state, Placed(state), Named(state),
         state.pass = worker[w].pass, state.at = worker[w].at,
         state.repetition = worker[w].repetition, state.failed = worker[w].failed,
         Chain => Deps(state.name) \cap worker[w].failed = {},
         NEW failed, NEW messages, NEW refused, refused => streak = MaxFailures,
         streak = MaxFailures => streak' = MaxFailures,
         Complete(w, state, failed, messages, refused), config' = config
  PROVE  CauseInv'
<1>1. PICK vs, result :
        /\ result.skipped = FALSE /\ result.refused = refused
        /\ Collect(w, [state EXCEPT !.vars = vs, !.failed =
                         state.failed \cup (IF result.marked THEN {state.name} ELSE {})], result)
  <2> DEFINE api == Selector.apis[state.name]
             extracted == IF messages = None THEN NoVars
                          ELSE extractAndStore(api.extractors, [request |-> [found |-> NoVars],
                                                                response |-> CHOOSE m \in messages : TRUE,
                                                                variables |-> state.vars])
             stored == Stored(state, extracted)
             marked == MarksFailed(api, messages, failed, stored)
             result == [skipped |-> FALSE, success |-> ~failed, refused |-> refused, marked |-> marked,
                        body |-> state.body, extracted |-> extracted, attempts |-> state.attempts, cause |-> {}]
  <2>1. Collect(w, [state EXCEPT !.vars = stored,
                                 !.failed = IF marked THEN state.failed \cup {state.name} ELSE state.failed],
                result)
    BY DEF Complete, Placed, Fields
  <2>2. /\ result.skipped = FALSE /\ result.refused = refused /\ result.marked = marked
    OBVIOUS
  <2> HIDE DEF marked, stored, result
  <2>3. (IF marked THEN state.failed \cup {state.name} ELSE state.failed)
          = state.failed \cup (IF result.marked THEN {state.name} ELSE {})
    BY <2>2
  <2> QED
    BY <2>1, <2>2, <2>3
<1>2. PICK marked : marked = [state EXCEPT !.vars = vs, !.failed =
                         state.failed \cup (IF result.marked THEN {state.name} ELSE {})]
  OBVIOUS
<1>3. /\ Placed(marked) /\ Named(marked)
      /\ marked.pass = worker[w].pass /\ marked.at = worker[w].at /\ marked.name = state.name
      /\ marked.repetition = worker[w].repetition
      /\ marked.failed = worker[w].failed \cup (IF result.marked THEN {marked.name} ELSE {})
  BY <1>2 DEF Placed, Named, Fields
<1>4. Chain => /\ result.skipped <=> Deps(marked.name) \cap worker[w].failed # {}
               /\ result.skipped => result.cause = Deps(marked.name) \cap worker[w].failed
  BY <1>1, <1>3
<1>5. Collect(w, marked, result)
  BY <1>1, <1>2
<1>6. result.refused => streak = MaxFailures
  BY <1>1
<1> QED
  BY <1>3, <1>4, <1>5, <1>6, CollectCause

\* A step that collects nothing.
LEMMA KeepsCause ==
  ASSUME IInv, CauseInv, NEW w \in Workers, NEW state, worker' = [worker EXCEPT ![w] = state],
         state.pass = worker[w].pass, state.at = worker[w].at,
         state.repetition = worker[w].repetition, state.failed = worker[w].failed,
         Chain => Deps(state.name) \cap worker[w].failed = {},
         UNCHANGED <<config, results, streak>>
  PROVE  CauseInv'
<1>1. ASSUME Chain, NEW v \in Workers PROVE WorkerInv(v)'
  <2>1. WorkerInv(v)
    BY <1>1 DEF CauseInv, ChainInv
  <2>2. /\ worker'[v].pass = worker[v].pass /\ worker'[v].at = worker[v].at
        /\ worker'[v].repetition = worker[v].repetition /\ worker'[v].failed = worker[v].failed
    BY DEF IInv, PlaceInv
  <2>3. worker'[v].pc = "sending" => Deps(worker'[v].name) \cap worker[v].failed = {}
    <3>1. CASE v = w
      BY <1>1, <3>1 DEF IInv, PlaceInv
    <3>2. CASE v # w
      BY <2>1, <3>2 DEF IInv, PlaceInv, WorkerInv
    <3> QED
      BY <3>1, <3>2
  <2> QED
    BY <2>1, <2>2, <2>3, KeepsWorker
<1>2. Chain' <=> Chain
  BY DEF Chain, Selector
<1> QED
  BY <1>1, <1>2 DEF CauseInv, ChainInv, ResultsInv, RefusedInv

LEMMA InitCause == Init => BreakerInv /\ CauseInv
<1> SUFFICES ASSUME Init PROVE BreakerInv /\ CauseInv
  OBVIOUS
<1>1. BreakerInv
  BY RequestChainAssumption DEF Init, BreakerInv, Closed
<1>2. ASSUME NEW w \in Workers PROVE WorkerInv(w)
  <2>1. results[w] = {} /\ worker[w] = Start(0)
    BY DEF Init
  <2>2. Current(w) = {} /\ Tried(worker[w]) = 0
    BY <2>1 DEF Current, Tried, Start
  <2>3. worker[w].failed = FailedIn({}) /\ worker[w].pc # "sending"
    BY <2>1 DEF FailedIn, Start
  <2> QED
    BY <2>1, <2>2, <2>3 DEF WorkerInv, Covers
<1> QED
  BY <1>1, <1>2 DEF Init, CauseInv, ResultsInv, RefusedInv, ChainInv

LEMMA CauseStep == Ordered /\ IInv /\ BreakerInv /\ CauseInv /\ [Next]_vars => CauseInv'
<1> SUFFICES ASSUME Ordered, IInv, BreakerInv, CauseInv, [Next]_vars PROVE CauseInv'
  OBVIOUS
<1>1. CASE ResetTimeout \/ UNCHANGED vars
  <2>1. UNCHANGED <<config, worker, results, streak>>
    BY <1>1 DEF ResetTimeout, vars
  <2>2. ASSUME Chain, NEW v \in Workers PROVE WorkerInv(v)'
    <3>1. WorkerInv(v)
      BY <2>2 DEF CauseInv, ChainInv
    <3>2. worker'[v].pc = "sending" => Deps(worker'[v].name) \cap worker[v].failed = {}
      BY <2>1, <3>1 DEF WorkerInv
    <3> QED
      BY <2>1, <3>1, <3>2, KeepsWorker
  <2> QED
    BY <2>1, <2>2 DEF CauseInv, ChainInv, ResultsInv, RefusedInv, Chain, Selector
<1>2. ASSUME NEW w \in Workers, Skip(w) PROVE CauseInv'
  <2>1. PICK name \in NextRequest(w) :
          /\ shouldSkipAPI(w, name)
          /\ Collect(w, [worker[w] EXCEPT !.name = name],
                     [skipped |-> TRUE, success |-> FALSE, refused |-> FALSE, marked |-> FALSE,
                      body |-> ReplaceString(Selector.apis[name].body, worker[w].vars),
                      extracted |-> NoVars, attempts |-> 0, cause |-> getFailedDependencies(w, name)])
    BY <1>2 DEF Skip
  <2>2. PICK result :
          /\ result.skipped = TRUE /\ result.refused = FALSE /\ result.marked = FALSE
          /\ result.cause = getFailedDependencies(w, name)
          /\ Collect(w, [worker[w] EXCEPT !.name = name], result)
    <3> DEFINE placed == [skipped |-> TRUE, success |-> FALSE, refused |-> FALSE, marked |-> FALSE,
                          body |-> ReplaceString(Selector.apis[name].body, worker[w].vars),
                          extracted |-> NoVars, attempts |-> 0, cause |-> getFailedDependencies(w, name)]
    <3>1. /\ placed.skipped = TRUE /\ placed.refused = FALSE /\ placed.marked = FALSE
          /\ placed.cause = getFailedDependencies(w, name)
      OBVIOUS
    <3>2. Collect(w, [worker[w] EXCEPT !.name = name], placed)
      BY <2>1
    <3> HIDE DEF placed
    <3> QED
      BY <3>1, <3>2
  <2>3. /\ worker[w].pc = "ready" /\ config' = config /\ streak' = streak
    BY <1>2 DEF Skip
  <2>4. PICK state : state = [worker[w] EXCEPT !.name = name]
    OBVIOUS
  <2>5. Placed(state) /\ Named(state)
    BY <2>3, <2>4, BuiltPlaced
  <2>6. /\ state.pass = worker[w].pass /\ state.at = worker[w].at /\ state.name = name
        /\ state.repetition = worker[w].repetition /\ state.failed = worker[w].failed
    BY <2>4 DEF IInv, PlaceInv, Placed, Fields
  <2>7. Chain => /\ Deps(state.name) \cap worker[w].failed # {}
                 /\ result.cause = Deps(state.name) \cap worker[w].failed
    BY <2>1, <2>2, <2>6 DEF shouldSkipAPI, getFailedDependencies, Deps
  <2> QED
    BY <2>2, <2>3, <2>4, <2>5, <2>6, <2>7, CollectCause
<1>3. ASSUME NEW w \in Workers, Begin(w) PROVE CauseInv'
  <2>1. PICK name \in NextRequest(w) : /\ worker' = [worker EXCEPT ![w] = BuildRequest(w, name)]
                                       /\ ~shouldSkipAPI(w, name)
    BY <1>3 DEF Begin
  <2>2. UNCHANGED <<config, results, streak>>
    BY <1>3 DEF Begin
  <2>3. PICK state : state = BuildRequest(w, name)
    OBVIOUS
  <2>4. /\ state.pass = worker[w].pass /\ state.at = worker[w].at /\ state.name = name
        /\ state.repetition = worker[w].repetition /\ state.failed = worker[w].failed
    BY <2>3 DEF BuildRequest, IInv, PlaceInv, Placed, Fields
  <2>5. Chain => Deps(state.name) \cap worker[w].failed = {}
    BY <2>1, <2>4 DEF shouldSkipAPI, getFailedDependencies, Deps
  <2> QED
    BY <2>1, <2>2, <2>3, <2>4, <2>5, KeepsCause
<1>4. ASSUME NEW w \in Workers, Refuse(w) PROVE CauseInv'
  <2>1. PICK name \in NextRequest(w) : /\ Complete(w, BuildRequest(w, name), TRUE, None, TRUE)
                                       /\ ~shouldSkipAPI(w, name)
    BY <1>4 DEF Refuse
  <2>2. /\ worker[w].pc = "ready" /\ config' = config /\ streak' = streak /\ circuit.state = "open"
    BY <1>4 DEF Refuse, Refuses
  <2>3. streak = MaxFailures
    BY <2>2 DEF BreakerInv
  <2>4. PICK state : state = BuildRequest(w, name)
    OBVIOUS
  <2>5. Placed(state) /\ Named(state)
    BY <2>2, <2>4, BuiltPlaced
  <2>6. /\ state.pass = worker[w].pass /\ state.at = worker[w].at /\ state.name = name
        /\ state.repetition = worker[w].repetition /\ state.failed = worker[w].failed
    BY <2>4 DEF BuildRequest, IInv, PlaceInv, Placed, Fields
  <2>7. Chain => Deps(state.name) \cap worker[w].failed = {}
    BY <2>1, <2>6 DEF shouldSkipAPI, getFailedDependencies, Deps
  <2>8. Complete(w, state, TRUE, None, TRUE)
    BY <2>1, <2>4
  <2> QED
    BY <2>2, <2>3, <2>5, <2>6, <2>7, <2>8, CompleteCause
<1>5. ASSUME NEW w \in Workers, NEW kind \in Kinds, Retry(w, kind) PROVE CauseInv'
  <2>1. PICK state : state = [worker[w] EXCEPT !.attempts = worker[w].attempts + 1]
    OBVIOUS
  <2>2. /\ worker[w].pc = "sending" /\ UNCHANGED <<config, results, streak>>
        /\ worker' = [worker EXCEPT ![w] = state]
    BY <1>5, <2>1 DEF Retry, IInv, PlaceInv
  <2>3. /\ state.pass = worker[w].pass /\ state.at = worker[w].at /\ state.name = worker[w].name
        /\ state.repetition = worker[w].repetition /\ state.failed = worker[w].failed
    BY <2>1 DEF IInv, PlaceInv, Placed, Fields
  <2>4. Chain => Deps(state.name) \cap worker[w].failed = {}
    BY <2>2, <2>3 DEF CauseInv, ChainInv, WorkerInv
  <2> QED
    BY <2>2, <2>3, <2>4, KeepsCause
<1>6. ASSUME NEW w \in Workers, NEW kind \in Kinds, Send(w, kind) PROVE CauseInv'
  <2>1. PICK state : state = [worker[w] EXCEPT !.attempts = worker[w].attempts + 1]
    OBVIOUS
  <2>2. /\ worker[w].pc = "sending" /\ config' = config
        /\ Complete(w, state, kind \in Failing, Answer(w, state, kind), FALSE)
    BY <1>6, <2>1 DEF Send
  <2>3. streak = MaxFailures => streak' = MaxFailures
    BY <1>6 DEF Send
  <2>4. /\ state.pass = worker[w].pass /\ state.at = worker[w].at /\ state.name = worker[w].name
        /\ state.repetition = worker[w].repetition /\ state.failed = worker[w].failed
    BY <2>1 DEF IInv, PlaceInv, Placed, Fields
  <2>5. Placed(state) /\ Named(state)
    <3>1. Placed(worker[w]) /\ Named(worker[w])
      BY <2>2 DEF IInv, PlaceInv
    <3> QED
      BY <2>1, <3>1 DEF Placed, Named, Fields
  <2>6. Chain => Deps(state.name) \cap worker[w].failed = {}
    BY <2>2, <2>4 DEF CauseInv, ChainInv, WorkerInv
  <2> QED
    BY <2>2, <2>3, <2>4, <2>5, <2>6, CompleteCause
<1> QED
  BY <1>1, <1>2, <1>3, <1>4, <1>5, <1>6 DEF Next, Done

\* A request is not sent only for a cause, in every configuration whose chains are in the order
\* of their dependencies, as the search of dependency.go leaves them: no API is skipped or sent
\* on what an earlier pass or another worker did, and the breaker refuses none before it has
\* seen MaxFailures failures in a row (worker.go, shouldSkipAPI; middleware.go).
THEOREM UnsentAlwaysHasCause == Ordered => (Spec => []UnsentHasCause)
<1> DEFINE Inv == Ordered /\ IInv /\ BreakerInv /\ CauseInv
<1>1. Ordered /\ Init => Inv
  BY InitInv, InitCause
<1>2. Inv /\ [Next]_vars => Inv'
  BY InvStep, BreakerStep, CauseStep
<1>3. Inv => UnsentHasCause
  BY DEF CauseInv, RefusedInv, ChainInv, WorkerInv, Explained, Failures, Deps, UnsentHasCause
<1> HIDE DEF Inv
<1> QED
  BY <1>1, <1>2, <1>3, PTL DEF Spec

-----------------------------------------------------------------------------
(* What requests are made of.                                              *)

\* The values of results that all come before a new one: its own, and theirs otherwise.
LEMMA ValuesOfOneMore ==
  ASSUME NEW C, NEW new, \A f \in C : Precedes(f, new) /\ ~Precedes(new, f), ~Precedes(new, new)
  PROVE  Values(C \cup {new}) =
           LET own == {<<new.name, v>> : v \in DOMAIN new.extracted}
           IN [key \in own \cup DOMAIN Values(C) |->
                 IF key \in own THEN new.extracted[key[2]] ELSE Values(C)[key]]
<1> DEFINE With(R, key) == {f \in R : f.name = key[1] /\ key[2] \in DOMAIN f.extracted}
           Keys(R) == UNION {{<<f.name, v>> : v \in DOMAIN f.extracted} : f \in R}
           Newest(R, key) == CHOOSE f \in With(R, key) : \A g \in With(R, key) : ~Precedes(f, g)
           own == {<<new.name, v>> : v \in DOMAIN new.extracted}
           More == C \cup {new}
<1>1. \A R : Values(R) = [key \in Keys(R) |-> Newest(R, key).extracted[key[2]]]
  BY DEF Values
<1>2. Keys(More) = own \cup Keys(C)
  OBVIOUS
<1>3. ASSUME NEW key \in own PROVE Newest(More, key) = new
  <2>1. new \in With(More, key) /\ \A f \in With(More, key) : f = new \/ f \in C
    OBVIOUS
  <2> HIDE DEF With
  <2>2. \A g \in With(More, key) : ~Precedes(new, g)
    BY <2>1
  <2>3. \A f \in With(More, key) : (\A g \in With(More, key) : ~Precedes(f, g)) => f = new
    BY <2>1
  <2> QED
    BY <2>1, <2>2, <2>3
<1>4. ASSUME NEW key \in Keys(More), key \notin own PROVE Newest(More, key) = Newest(C, key)
  <2>1. PICK f \in More : \E v \in DOMAIN f.extracted : key = <<f.name, v>>
    OBVIOUS
  <2>2. With(More, key) = With(C, key)
    BY <1>4, <2>1
  <2> QED
    BY <2>2
<1> HIDE DEF Keys, Newest, own, More
<1>5. DOMAIN Values(C) = Keys(C)
  BY <1>1
<1>6. Values(More) = [key \in Keys(More) |-> Newest(More, key).extracted[key[2]]]
  BY <1>1
<1>7. \A key \in Keys(C) : Values(C)[key] = Newest(C, key).extracted[key[2]]
  BY <1>1
<1>8. Values(More) = [key \in own \cup DOMAIN Values(C) |->
                     IF key \in own THEN new.extracted[key[2]] ELSE Values(C)[key]]
  BY <1>2, <1>3, <1>4, <1>5, <1>6, <1>7
<1> QED
  BY <1>8 DEF own, More

LEMMA ValuesOfNone == Values({}) = NoVars
BY DEF Values, NoVars

\* What VarsAreFresh says of one result among those of its pass.
Made(R, r) ==
  /\ r.body = ReplaceString(Selector.apis[r.name].body, Values(Before(R, r)))
  /\ config.options.breaker /\ ~r.success => r.extracted = NoVars

\* A worker has the values of the results that it collected in the pass under way, which all
\* come before its place, and has made its request of them.
FreshInv(w) ==
  /\ Current(w) = results[w] \/ Current(w) = {}
  /\ \A f \in results[w] : f.at \in Nat /\ f.repetition \in Nat
  /\ \A f \in Current(w) : Precedes(f, worker[w])
  /\ worker[w].vars = Values(Current(w))
  /\ worker[w].pc = "sending" =>
       worker[w].body = ReplaceString(Selector.apis[worker[w].name].body, worker[w].vars)
  /\ \A r \in results[w] : Made(results[w], r)

\* What a worker has once a result was extracted.
Overlaid(vs, name, extracted) ==
  LET own == {<<name, v>> : v \in DOMAIN extracted}
  IN [key \in own \cup DOMAIN vs |-> IF key \in own THEN extracted[key[2]] ELSE vs[key]]

\* What is collected comes after all that the worker has of its pass.
LEMMA CollectPlaces ==
  ASSUME IInv, ResultsInv, NEW w \in Workers, FreshInv(w), NEW state, Placed(state),
         state.pass = worker[w].pass, state.at = worker[w].at,
         state.repetition = worker[w].repetition, NEW result, Collect(w, state, result)
  PROVE  \E new :
           /\ results'[w] = Current(w) \cup {new}
           /\ new.pass = state.pass /\ new.at = state.at /\ new.name = state.name
           /\ new.repetition = state.repetition /\ new.success = result.success
           /\ new.body = result.body /\ new.extracted = result.extracted /\ new.attempts = result.attempts
           /\ new.at \in Nat /\ new.repetition \in Nat /\ new.pass \in Nat
           /\ \A f \in Current(w) : /\ f.at \in Nat /\ f.repetition \in Nat /\ f.pass = new.pass
                                   /\ Precedes(f, new) /\ ~Precedes(new, f)
           /\ ~Precedes(new, new)
           /\ Before(results'[w], new) = Current(w)
           /\ \A r \in Current(w) : Before(results'[w], r) = Before(Current(w), r)
<1>1. PICK new : /\ results' = [results EXCEPT ![w] = {r \in results[w] : r.pass = state.pass} \cup {new}]
                 /\ new.pass = state.pass /\ new.at = state.at /\ new.name = state.name
                 /\ new.repetition = state.repetition /\ new.success = result.success
                 /\ new.body = result.body /\ new.extracted = result.extracted /\ new.attempts = result.attempts
  <2> DEFINE placed ==
        [pass |-> state.pass, at |-> state.at, name |-> state.name, repetition |-> state.repetition,
         skipped |-> result.skipped, success |-> result.success, refused |-> result.refused,
         marked |-> result.marked, body |-> result.body, extracted |-> result.extracted,
         attempts |-> result.attempts, cause |-> result.cause]
  <2>1. results' = [results EXCEPT ![w] = {r \in results[w] : r.pass = state.pass} \cup {placed}]
    BY DEF Collect
  <2>2. /\ placed.pass = state.pass /\ placed.at = state.at /\ placed.name = state.name
        /\ placed.repetition = state.repetition /\ placed.success = result.success
        /\ placed.body = result.body /\ placed.extracted = result.extracted
        /\ placed.attempts = result.attempts
    OBVIOUS
  <2> HIDE DEF placed
  <2> QED
    BY <2>1, <2>2
<1>2. PICK C : C = Current(w)
  OBVIOUS
<1>3. results'[w] = C \cup {new}
  BY <1>1, <1>2 DEF Current, ResultsInv
<1>4. PICK Later : Later = C \cup {new}
  OBVIOUS
<1>5. /\ new.at \in Nat /\ new.repetition \in Nat /\ new.pass \in Nat
      /\ \A f \in C : f.at \in Nat /\ f.repetition \in Nat /\ f.pass = new.pass
  BY <1>1, <1>2 DEF Placed, FreshInv, Current
<1>6. /\ \A f \in C : Precedes(f, new) /\ ~Precedes(new, f)
      /\ ~Precedes(new, new)
  <2>1. \A f \in C : Precedes(f, worker[w])
    BY <1>2 DEF FreshInv
  <2> QED
    BY <1>1, <1>5, <2>1 DEF Precedes
<1>7. Before(Later, new) = C /\ \A r \in C : Before(Later, r) = Before(C, r)
  BY <1>4, <1>6 DEF Before
<1>8. results'[w] = Later
  BY <1>3, <1>4
<1> QED
  BY <1>1, <1>2, <1>3, <1>5, <1>6, <1>7, <1>8

\* Whatever is collected, its values are the last ones.
LEMMA CollectFresh ==
  ASSUME IInv, ResultsInv, NEW w \in Workers, FreshInv(w), NEW state, Placed(state),
         state.pass = worker[w].pass, state.at = worker[w].at,
         state.repetition = worker[w].repetition, NEW result,
         result.body = ReplaceString(Selector.apis[state.name].body, worker[w].vars),
         config.options.breaker /\ ~result.success => result.extracted = NoVars,
         state.vars = Overlaid(worker[w].vars, state.name, result.extracted),
         Collect(w, state, result), config' = config
  PROVE  FreshInv(w)'
<1>1. PICK new :
        /\ results'[w] = Current(w) \cup {new}
        /\ new.pass = state.pass /\ new.at = state.at /\ new.name = state.name
        /\ new.repetition = state.repetition /\ new.success = result.success
        /\ new.body = result.body /\ new.extracted = result.extracted
        /\ new.at \in Nat /\ new.repetition \in Nat /\ new.pass \in Nat
        /\ \A f \in Current(w) : /\ f.at \in Nat /\ f.repetition \in Nat /\ f.pass = new.pass
                                /\ Precedes(f, new) /\ ~Precedes(new, f)
        /\ ~Precedes(new, new)
        /\ Before(results'[w], new) = Current(w)
        /\ \A r \in Current(w) : Before(results'[w], r) = Before(Current(w), r)
  BY CollectPlaces
<1>2. PICK C : C = Current(w)
  OBVIOUS
<1>3. results'[w] = C \cup {new}
  BY <1>1, <1>2
<1>4. PICK Later : Later = C \cup {new}
  OBVIOUS
<1>5. /\ new.at \in Nat /\ new.repetition \in Nat /\ new.pass \in Nat
      /\ \A f \in C : f.at \in Nat /\ f.repetition \in Nat /\ f.pass = new.pass
  BY <1>1, <1>2
<1>6. /\ \A f \in C : Precedes(f, new) /\ ~Precedes(new, f)
      /\ ~Precedes(new, new)
  BY <1>1, <1>2
<1>7. Before(Later, new) = C /\ \A r \in C : Before(Later, r) = Before(C, r)
  BY <1>1, <1>2, <1>3, <1>4
<1>8. \A r \in C : Made(C, r)
  BY <1>2 DEF FreshInv
<1>9. \A r \in Later : Made(Later, r)
  <2>1. ASSUME NEW r \in C PROVE Made(Later, r)
    BY <1>7, <1>8 DEF Made
  <2>2. new.body = ReplaceString(Selector.apis[new.name].body, Values(C))
    BY <1>1, <1>2 DEF FreshInv
  <2>3. Made(Later, new)
    BY <1>1, <1>7, <2>2 DEF Made
  <2> QED
    BY <1>4, <2>1, <2>3
<1>10. Values(Later) = state.vars
  <2>1. Values(Later) = Overlaid(Values(C), new.name, new.extracted)
    BY <1>4, <1>6, ValuesOfOneMore DEF Overlaid
  <2>2. worker[w].vars = Values(C)
    BY <1>2 DEF FreshInv
  <2> QED
    BY <1>1, <2>1, <2>2
<1>11. (\A r \in results[w] : Made(results[w], r))'
  BY <1>3, <1>4, <1>9 DEF Made, Selector
<1>12. worker'[w] = Advance(w, state)
  BY DEF Collect, IInv, PlaceInv
<1>13. PICK next : next = Advance(w, state)
  OBVIOUS
<1>14. next.pc # "sending"
  BY <1>13 DEF Advance, Placed, Fields, Start
<1>15. CASE /\ next.pass = state.pass /\ next.vars = state.vars
            /\ Precedes(new, next) /\ next.at \in Nat /\ next.repetition \in Nat
  <2>1. Current(w)' = Later
    BY <1>1, <1>3, <1>4, <1>5, <1>12, <1>13, <1>15 DEF Current
  <2>2. \A f \in Later : Precedes(f, next)
    BY <1>4, <1>5, <1>6, <1>15 DEF Precedes
  <2>3. (\A f \in results[w] : f.at \in Nat /\ f.repetition \in Nat)'
    BY <1>3, <1>5
  <2>4. (\A f \in Current(w) : Precedes(f, worker[w]))'
    BY <1>12, <1>13, <2>1, <2>2 DEF Precedes
  <2> QED
    BY <1>3, <1>4, <1>10, <1>11, <1>12, <1>13, <1>14, <1>15, <2>1, <2>3, <2>4 DEF FreshInv
<1>16. CASE next.pass = state.pass + 1 /\ next.vars = NoVars
  <2>1. Current(w)' = {}
    BY <1>1, <1>3, <1>5, <1>12, <1>13, <1>16 DEF Current
  <2>2. (\A f \in results[w] : f.at \in Nat /\ f.repetition \in Nat)'
    BY <1>3, <1>5
  <2> QED
    BY <1>11, <1>12, <1>13, <1>14, <1>16, <2>1, <2>2, ValuesOfNone DEF FreshInv
<1> QED
  <2> DEFINE api == Selector.apis[state.name]
  <2>1. CASE Chain /\ state.repetition + 1 < Repeats(api)
    <3>1. next = [state EXCEPT !.pc = "ready", !.repetition = state.repetition + 1]
      BY <1>13, <2>1 DEF Advance
    <3>2. /\ next.pass = state.pass /\ next.vars = state.vars
          /\ next.at = state.at /\ next.repetition = state.repetition + 1
      BY <3>1 DEF Placed, Fields
    <3> QED
      BY <1>1, <1>5, <1>15, <3>2 DEF Precedes
  <2>2. CASE ~(Chain /\ state.repetition + 1 < Repeats(api)) /\ Chain /\ state.at < Len(Selector.order)
    <3>1. next = [state EXCEPT !.pc = "ready", !.at = state.at + 1, !.repetition = 0]
      BY <1>13, <2>2 DEF Advance
    <3>2. /\ next.pass = state.pass /\ next.vars = state.vars
          /\ next.at = state.at + 1 /\ next.repetition = 0
      BY <3>1 DEF Placed, Fields
    <3> QED
      BY <1>1, <1>5, <1>15, <3>2 DEF Precedes
  <2>3. CASE /\ ~(Chain /\ state.repetition + 1 < Repeats(api))
             /\ ~(Chain /\ state.at < Len(Selector.order))
    <3>1. next = [Start(state.pass + 1) EXCEPT
                    !.pc = IF state.pass + 1 < ReqCount THEN "ready" ELSE "done"]
      BY <1>13, <2>3 DEF Advance
    <3> QED
      BY <1>16, <3>1 DEF Start
  <2> QED
    BY <2>1, <2>2, <2>3

LEMMA KeepsFresh ==
  ASSUME NEW w \in Workers, FreshInv(w), config' = config, results'[w] = results[w],
         worker'[w].pass = worker[w].pass, worker'[w].at = worker[w].at,
         worker'[w].repetition = worker[w].repetition, worker'[w].vars = worker[w].vars,
         worker'[w].pc = "sending" =>
           worker'[w].body = ReplaceString(Selector.apis[worker'[w].name].body, worker[w].vars)
  PROVE  FreshInv(w)'
<1>1. Current(w)' = Current(w) /\ Selector' = Selector
  BY DEF Current, Selector
<1>2. (\A f \in Current(w) : Precedes(f, worker[w]))'
  BY <1>1 DEF FreshInv, Precedes
<1>3. (\A r \in results[w] : Made(results[w], r))'
  BY <1>1 DEF FreshInv, Made
<1>4. (worker[w].pc = "sending" =>
         worker[w].body = ReplaceString(Selector.apis[worker[w].name].body, worker[w].vars))'
  BY <1>1
<1> QED
  BY <1>1, <1>2, <1>3, <1>4 DEF FreshInv

AllFresh == ResultsInv /\ \A w \in Workers : FreshInv(w)

\* A step that collects a result.
LEMMA CollectAllFresh ==
  ASSUME IInv, AllFresh, NEW w \in Workers, NEW state, Placed(state),
         state.pass = worker[w].pass, state.at = worker[w].at,
         state.repetition = worker[w].repetition, NEW result,
         result.body = ReplaceString(Selector.apis[state.name].body, worker[w].vars),
         config.options.breaker /\ ~result.success => result.extracted = NoVars,
         state.vars = Overlaid(worker[w].vars, state.name, result.extracted),
         Collect(w, state, result), config' = config
  PROVE  AllFresh'
<1>1. ResultsInv /\ FreshInv(w)
  BY DEF AllFresh
<1>2. /\ ResultsInv'
      /\ \A v \in Workers \ {w} : results'[v] = results[v] /\ worker'[v] = worker[v]
  BY <1>1, CollectResults
<1>3. FreshInv(w)'
  BY <1>1, CollectFresh
<1>4. ASSUME NEW v \in Workers \ {w} PROVE FreshInv(v)'
  <2>1. FreshInv(v) /\ results'[v] = results[v] /\ worker'[v] = worker[v]
    BY <1>2 DEF AllFresh
  <2>2. worker'[v].pc = "sending" =>
          worker'[v].body = ReplaceString(Selector.apis[worker'[v].name].body, worker[v].vars)
    BY <2>1 DEF FreshInv
  <2> QED
    BY <2>1, <2>2, KeepsFresh
<1> QED
  BY <1>2, <1>3, <1>4 DEF AllFresh

\* A step that collects nothing.
LEMMA KeepsAllFresh ==
  ASSUME IInv, AllFresh, NEW w \in Workers, NEW state, worker' = [worker EXCEPT ![w] = state],
         state.pass = worker[w].pass, state.at = worker[w].at,
         state.repetition = worker[w].repetition, state.vars = worker[w].vars,
         state.body = ReplaceString(Selector.apis[state.name].body, worker[w].vars),
         UNCHANGED <<config, results>>
  PROVE  AllFresh'
<1>1. ASSUME NEW v \in Workers PROVE FreshInv(v)'
  <2>1. FreshInv(v)
    BY DEF AllFresh
  <2>2. /\ worker'[v].pass = worker[v].pass /\ worker'[v].at = worker[v].at
        /\ worker'[v].repetition = worker[v].repetition /\ worker'[v].vars = worker[v].vars
    BY DEF IInv, PlaceInv
  <2>3. worker'[v].pc = "sending" =>
          worker'[v].body = ReplaceString(Selector.apis[worker'[v].name].body, worker[v].vars)
    <3>1. CASE v = w
      BY <3>1 DEF IInv, PlaceInv
    <3>2. CASE v # w
      BY <2>1, <3>2 DEF IInv, PlaceInv, FreshInv
    <3> QED
      BY <3>1, <3>2
  <2> QED
    BY <2>1, <2>2, <2>3, KeepsFresh
<1> QED
  BY <1>1 DEF AllFresh, ResultsInv

\* The end of a request: what its answer gave is stored and collected.
LEMMA CompleteFresh ==
  ASSUME IInv, AllFresh, NEW w \in Workers, NEW state, Placed(state),
         state.pass = worker[w].pass, state.at = worker[w].at,
         state.repetition = worker[w].repetition, state.vars = worker[w].vars,
         state.body = ReplaceString(Selector.apis[state.name].body, worker[w].vars),
         NEW failed, NEW messages, NEW refused,
         config.options.breaker /\ failed => messages = None,
         Complete(w, state, failed, messages, refused), config' = config
  PROVE  AllFresh'
<1> DEFINE api == Selector.apis[state.name]
           extracted == IF messages = None THEN NoVars
                        ELSE extractAndStore(api.extractors, [request |-> [found |-> NoVars],
                                                              response |-> CHOOSE m \in messages : TRUE,
                                                              variables |-> state.vars])
           stored == Stored(state, extracted)
           marked == MarksFailed(api, messages, failed, stored)
           result == [skipped |-> FALSE, success |-> ~failed, refused |-> refused, marked |-> marked,
                      body |-> state.body, extracted |-> extracted, attempts |-> state.attempts, cause |-> {}]
           ended == [state EXCEPT !.vars = stored,
                                  !.failed = IF marked THEN state.failed \cup {state.name} ELSE state.failed]
<1>1. Collect(w, ended, result)
  BY DEF Complete, Placed, Fields
<1>2. /\ result.body = state.body /\ result.success = ~failed /\ result.extracted = extracted
  OBVIOUS
<1>3. config.options.breaker /\ failed => extracted = NoVars
  OBVIOUS
<1>4. stored = Overlaid(worker[w].vars, state.name, extracted)
  BY DEF Stored, Overlaid
<1> HIDE DEF marked, stored, extracted, result
<1>5. /\ Placed(ended) /\ ended.pass = state.pass /\ ended.at = state.at
      /\ ended.repetition = state.repetition /\ ended.name = state.name /\ ended.vars = stored
  BY DEF Placed, Fields
<1> HIDE DEF ended
<1>6. /\ result.body = ReplaceString(Selector.apis[ended.name].body, worker[w].vars)
      /\ config.options.breaker /\ ~result.success => result.extracted = NoVars
      /\ ended.vars = Overlaid(worker[w].vars, ended.name, result.extracted)
  BY <1>2, <1>3, <1>4, <1>5
<1> QED
  BY <1>1, <1>5, <1>6, CollectAllFresh

LEMMA InitFresh == Init => AllFresh
<1> SUFFICES ASSUME Init PROVE AllFresh
  OBVIOUS
<1>1. ASSUME NEW w \in Workers PROVE FreshInv(w)
  <2>1. results[w] = {} /\ worker[w] = Start(0)
    BY DEF Init
  <2>2. Current(w) = {} /\ worker[w].vars = NoVars /\ worker[w].pc # "sending"
    BY <2>1 DEF Current, Start
  <2> QED
    BY <2>1, <2>2, ValuesOfNone DEF FreshInv
<1> QED
  BY <1>1 DEF Init, AllFresh, ResultsInv

LEMMA FreshStep == IInv /\ AllFresh /\ [Next]_vars => AllFresh'
<1> SUFFICES ASSUME IInv, AllFresh, [Next]_vars PROVE AllFresh'
  OBVIOUS
<1>1. CASE ResetTimeout \/ UNCHANGED vars
  <2>1. UNCHANGED <<config, worker, results>>
    BY <1>1 DEF ResetTimeout, vars
  <2>2. ASSUME NEW v \in Workers PROVE FreshInv(v)'
    <3>1. FreshInv(v)
      BY DEF AllFresh
    <3>2. worker'[v].pc = "sending" =>
            worker'[v].body = ReplaceString(Selector.apis[worker'[v].name].body, worker[v].vars)
      BY <2>1, <3>1 DEF FreshInv
    <3> QED
      BY <2>1, <3>1, <3>2, KeepsFresh
  <2> QED
    BY <2>1, <2>2 DEF AllFresh, ResultsInv
<1>2. ASSUME NEW w \in Workers, Skip(w) PROVE AllFresh'
  <2>1. PICK name \in NextRequest(w) :
          Collect(w, [worker[w] EXCEPT !.name = name],
                  [skipped |-> TRUE, success |-> FALSE, refused |-> FALSE, marked |-> FALSE,
                   body |-> ReplaceString(Selector.apis[name].body, worker[w].vars),
                   extracted |-> NoVars, attempts |-> 0, cause |-> getFailedDependencies(w, name)])
    BY <1>2 DEF Skip
  <2>2. PICK result :
          /\ result.body = ReplaceString(Selector.apis[name].body, worker[w].vars)
          /\ result.extracted = NoVars
          /\ Collect(w, [worker[w] EXCEPT !.name = name], result)
    <3> DEFINE placed == [skipped |-> TRUE, success |-> FALSE, refused |-> FALSE, marked |-> FALSE,
                          body |-> ReplaceString(Selector.apis[name].body, worker[w].vars),
                          extracted |-> NoVars, attempts |-> 0, cause |-> getFailedDependencies(w, name)]
    <3>1. /\ placed.body = ReplaceString(Selector.apis[name].body, worker[w].vars)
          /\ placed.extracted = NoVars
      OBVIOUS
    <3>2. Collect(w, [worker[w] EXCEPT !.name = name], placed)
      BY <2>1
    <3> HIDE DEF placed
    <3> QED
      BY <3>1, <3>2
  <2>3. worker[w].pc = "ready" /\ config' = config
    BY <1>2 DEF Skip
  <2>4. PICK state : state = [worker[w] EXCEPT !.name = name]
    OBVIOUS
  <2>5. Placed(state)
    BY <2>3, <2>4, BuiltPlaced
  <2>6. /\ state.pass = worker[w].pass /\ state.at = worker[w].at /\ state.name = name
        /\ state.repetition = worker[w].repetition /\ state.vars = worker[w].vars
    BY <2>4 DEF IInv, PlaceInv, Placed, Fields
  <2>7. worker[w].vars = Overlaid(worker[w].vars, name, NoVars)
    <3>1. worker[w].vars = Values(Current(w))
      BY DEF AllFresh, FreshInv
    <3>2. worker[w].vars = [key \in DOMAIN worker[w].vars |-> worker[w].vars[key]]
      BY <3>1 DEF Values
    <3>3. {<<name, v>> : v \in DOMAIN NoVars} = {}
      BY DEF NoVars
    <3> QED
      BY <3>2, <3>3 DEF Overlaid
  <2> QED
    BY <2>2, <2>3, <2>4, <2>5, <2>6, <2>7, CollectAllFresh
<1>3. ASSUME NEW w \in Workers, Begin(w) PROVE AllFresh'
  <2>1. PICK name \in NextRequest(w) : worker' = [worker EXCEPT ![w] = BuildRequest(w, name)]
    BY <1>3 DEF Begin
  <2>2. UNCHANGED <<config, results>>
    BY <1>3 DEF Begin
  <2>3. PICK state : state = BuildRequest(w, name)
    OBVIOUS
  <2>4. /\ state.pass = worker[w].pass /\ state.at = worker[w].at /\ state.name = name
        /\ state.repetition = worker[w].repetition /\ state.vars = worker[w].vars
        /\ state.body = ReplaceString(Selector.apis[name].body, worker[w].vars)
    BY <2>3 DEF BuildRequest, IInv, PlaceInv, Placed, Fields
  <2> QED
    BY <2>1, <2>2, <2>3, <2>4, KeepsAllFresh
<1>4. ASSUME NEW w \in Workers, Refuse(w) PROVE AllFresh'
  <2>1. PICK name \in NextRequest(w) : Complete(w, BuildRequest(w, name), TRUE, None, TRUE)
    BY <1>4 DEF Refuse
  <2>2. worker[w].pc = "ready" /\ config' = config
    BY <1>4 DEF Refuse
  <2>3. PICK state : state = BuildRequest(w, name)
    OBVIOUS
  <2>4. Placed(state)
    BY <2>2, <2>3, BuiltPlaced
  <2>5. /\ state.pass = worker[w].pass /\ state.at = worker[w].at /\ state.name = name
        /\ state.repetition = worker[w].repetition /\ state.vars = worker[w].vars
        /\ state.body = ReplaceString(Selector.apis[name].body, worker[w].vars)
    BY <2>3 DEF BuildRequest, IInv, PlaceInv, Placed, Fields
  <2> QED
    BY <2>1, <2>2, <2>3, <2>4, <2>5, CompleteFresh
<1>5. ASSUME NEW w \in Workers, NEW kind \in Kinds, Retry(w, kind) PROVE AllFresh'
  <2>1. PICK state : state = [worker[w] EXCEPT !.attempts = worker[w].attempts + 1]
    OBVIOUS
  <2>2. /\ worker[w].pc = "sending" /\ UNCHANGED <<config, results>>
        /\ worker' = [worker EXCEPT ![w] = state]
    BY <1>5, <2>1 DEF Retry, IInv, PlaceInv
  <2>3. /\ state.pass = worker[w].pass /\ state.at = worker[w].at /\ state.name = worker[w].name
        /\ state.repetition = worker[w].repetition /\ state.vars = worker[w].vars
        /\ state.body = worker[w].body
    BY <2>1 DEF IInv, PlaceInv, Placed, Fields
  <2>4. worker[w].body = ReplaceString(Selector.apis[worker[w].name].body, worker[w].vars)
    BY <2>2 DEF AllFresh, FreshInv
  <2> QED
    BY <2>2, <2>3, <2>4, KeepsAllFresh
<1>6. ASSUME NEW w \in Workers, NEW kind \in Kinds, Send(w, kind) PROVE AllFresh'
  <2>1. PICK state : state = [worker[w] EXCEPT !.attempts = worker[w].attempts + 1]
    OBVIOUS
  <2>2. /\ worker[w].pc = "sending" /\ config' = config
        /\ Complete(w, state, kind \in Failing, Answer(w, state, kind), FALSE)
    BY <1>6, <2>1 DEF Send
  <2>3. config.options.breaker /\ kind \in Failing => Answer(w, state, kind) = None
    BY DEF Answer
  <2>4. /\ state.pass = worker[w].pass /\ state.at = worker[w].at /\ state.name = worker[w].name
        /\ state.repetition = worker[w].repetition /\ state.vars = worker[w].vars
        /\ state.body = worker[w].body
    BY <2>1 DEF IInv, PlaceInv, Placed, Fields
  <2>5. Placed(state)
    <3>1. Placed(worker[w])
      BY DEF IInv, PlaceInv
    <3> QED
      BY <2>1, <3>1 DEF Placed, Fields
  <2>6. worker[w].body = ReplaceString(Selector.apis[worker[w].name].body, worker[w].vars)
    BY <2>2 DEF AllFresh, FreshInv
  <2> QED
    BY <2>2, <2>3, <2>4, <2>5, <2>6, CompleteFresh
<1> QED
  BY <1>1, <1>2, <1>3, <1>4, <1>5, <1>6 DEF Next, Done

\* No request carries a value of another worker, of an earlier pass or one that was
\* overwritten, whatever is extracted, transformed and replaced, in any configuration; and
\* under a breaker nothing is extracted of a request that failed (worker.go, middleware.go).
THEOREM VarsAlwaysFresh == Spec => []VarsAreFresh
<1> DEFINE Inv == IInv /\ AllFresh
<1>1. Init => Inv
  BY InitInv, InitFresh
<1>2. Inv /\ [Next]_vars => Inv'
  BY InvStep, FreshStep
<1>3. Inv => VarsAreFresh
  BY DEF AllFresh, FreshInv, Made, VarsAreFresh
<1> HIDE DEF Inv
<1> QED
  BY <1>1, <1>2, <1>3, PTL DEF Spec
-----------------------------------------------------------------------------
(* The rules of verification, for any rules and responses, and whatever    *)
(* formats, patterns and schemas are.                                      *)

\* Rules and responses of the shape that Verify describes, their texts over some characters.
IsRule(rule, Char) ==
  /\ rule = [type |-> rule.type, jsonpath |-> rule.jsonpath, operator |-> rule.operator,
             regex |-> rule.regex, expect |-> rule.expect]
  /\ rule.expect.number \in Int /\ rule.expect.text \in Seq(Char)
IsResponse(resp, Char) ==
  /\ resp = [error |-> resp.error, status |-> resp.status, body |-> resp.body, json |-> resp.json,
             fields |-> resp.fields, headers |-> resp.headers]
  /\ resp.error \in BOOLEAN /\ resp.status \in Int /\ resp.body \in Seq(Char)

\* Without an error on the response the verdict is the one of the rule's type.
LEMMA VerdictOfType ==
  ASSUME NEW rule, NEW resp, ~resp.error
  PROVE  /\ rule.type = "STATUS_CODE" => V!Verify(rule, resp) = V!verifyStatusCode(rule, resp)
         /\ rule.type = "JSONPATH" => V!Verify(rule, resp) = V!verifyJSONPath(rule, resp)
         /\ rule.type = "CONTAINS" => V!Verify(rule, resp) = V!verifyContains(rule, resp)
         /\ rule.type = "REGEX" => V!Verify(rule, resp) = V!verifyRegex(rule, resp)
         /\ rule.type = "JSON_SCHEMA" => V!Verify(rule, resp) = V!verifyJSONSchema(rule, resp)
         /\ rule.type = "JSON_VALID" => V!Verify(rule, resp) = V!verifyJSONValid(resp)
         /\ rule.type = "HEADER" => V!Verify(rule, resp) = V!verifyHeader(rule, resp)
         /\ rule.type = "RESPONSE_TIME" => V!Verify(rule, resp) = V!verifyResponseTime(rule)
         /\ rule.type = "RESPONSE_SIZE" => V!Verify(rule, resp) = V!verifyResponseSize(rule, resp)
         /\ rule.type \in V!Formats => V!Verify(rule, resp) = V!verifyFormat(rule, resp)
         /\ rule.type = "LENGTH" => V!Verify(rule, resp) = V!verifyLength(rule, resp)
         /\ rule.type = "PREFIX" => V!Verify(rule, resp) = V!verifyPrefix(rule, resp)
         /\ rule.type = "SUFFIX" => V!Verify(rule, resp) = V!verifySuffix(rule, resp)
         /\ rule.type = "EMPTY" => V!Verify(rule, resp) = V!verifyEmpty(rule, resp)
         /\ rule.type = "NOT_EMPTY" => V!Verify(rule, resp) = V!verifyNotEmpty(rule, resp)
         /\ rule.type \notin V!Registered => V!Verify(rule, resp) = V!Silently(TRUE)
BY DEF V!Verify, V!CheckRule, V!Formats, V!Registered, V!Content, V!verifyEmail, V!verifyIP,
       V!verifyURL, V!verifyUUID, V!verifyBase64

LEMMA OkOfRecorded == \A P : V!Recorded(P).ok = P
BY DEF V!Recorded

\* What is recorded is the verdict.
LEMMA VerdictRecorded ==
  ASSUME NEW rule, NEW resp
  PROVE  /\ resp.error => V!Verify(rule, resp) = V!Silently(FALSE)
         /\ ~resp.error /\ rule.type \in V!Registered =>
              V!Verify(rule, resp).recorded = <<V!Verify(rule, resp).ok>>
<1>1. resp.error => V!Verify(rule, resp) = V!Silently(FALSE)
  BY DEF V!Verify
<1>2. \A ok : V!Recorded(ok).recorded = <<V!Recorded(ok).ok>>
  BY DEF V!Recorded
<1>3. ASSUME ~resp.error, rule.type \in V!Registered
      PROVE  \E ok : V!Verify(rule, resp) = V!Recorded(ok)
  <2>1. CASE rule.type \in {"STATUS_CODE", "RESPONSE_TIME", "RESPONSE_SIZE", "JSONPATH"}
    BY <1>3, <2>1, VerdictOfType
       DEF V!verifyStatusCode, V!verifyResponseTime, V!verifyResponseSize, V!verifyJSONPath
  <2>2. CASE rule.type \in {"CONTAINS", "REGEX", "JSON_SCHEMA", "JSON_VALID", "HEADER"}
    BY <1>3, <2>2, VerdictOfType
       DEF V!verifyContains, V!verifyRegex, V!verifyJSONSchema, V!verifyJSONValid, V!verifyHeader
  <2>3. CASE rule.type \in V!Formats
    BY <1>3, <2>3, VerdictOfType DEF V!verifyFormat
  <2>4. CASE rule.type \in {"LENGTH", "PREFIX", "SUFFIX", "EMPTY", "NOT_EMPTY"}
    BY <1>3, <2>4, VerdictOfType
       DEF V!verifyLength, V!verifyPrefix, V!verifySuffix, V!verifyEmpty, V!verifyNotEmpty
  <2> QED BY <1>3, <2>1, <2>2, <2>3, <2>4 DEF V!Registered, V!Content, V!Formats
<1> QED BY <1>1, <1>2, <1>3

\* A rule on the content lets only responses within 2xx pass, and one that needs a text or a
\* number needs it.
LEMMA WhatPassing ==
  ASSUME NEW rule, NEW resp, ~resp.error, V!Verify(rule, resp).ok
  PROVE  /\ rule.type \in V!Content => V!Succeeded(resp)
         /\ rule.type \in {"CONTAINS", "REGEX", "PREFIX", "SUFFIX"} => rule.expect.kind = "string"
         /\ rule.type \in {"RESPONSE_TIME", "RESPONSE_SIZE", "LENGTH"} => V!IsNumber(rule.expect)
<1>1. CASE rule.type \in {"RESPONSE_TIME", "RESPONSE_SIZE", "JSONPATH"}
  BY <1>1, VerdictOfType, OkOfRecorded DEF V!verifyResponseTime, V!verifyResponseSize, V!verifyJSONPath, V!Content
<1>2. CASE rule.type \in {"CONTAINS", "REGEX", "JSON_SCHEMA", "JSON_VALID", "HEADER"}
  <2>1. CASE rule.type \in {"CONTAINS", "REGEX"}
    BY <2>1, VerdictOfType, OkOfRecorded DEF V!verifyContains, V!verifyRegex
  <2>2. CASE rule.type \in {"JSON_SCHEMA", "JSON_VALID", "HEADER"}
    BY <2>2, VerdictOfType, OkOfRecorded DEF V!verifyJSONSchema, V!verifyJSONValid, V!verifyHeader
  <2> QED BY <1>2, <2>1, <2>2
<1>3. CASE rule.type \in V!Formats
  BY <1>3, VerdictOfType, OkOfRecorded DEF V!verifyFormat, V!Formats
<1>4. CASE rule.type \in {"LENGTH", "PREFIX", "SUFFIX"}
  BY <1>4, VerdictOfType, OkOfRecorded DEF V!verifyLength, V!verifyPrefix, V!verifySuffix
<1>5. CASE rule.type \in {"EMPTY", "NOT_EMPTY"}
  BY <1>5, VerdictOfType, OkOfRecorded DEF V!verifyEmpty, V!verifyNotEmpty
<1> QED BY <1>1, <1>2, <1>3, <1>4, <1>5 DEF V!Content, V!Formats

\* Of two opposite rules about emptiness one passes.
LEMMA EmptyOrNot ==
  ASSUME NEW Char, NEW rule, NEW resp, IsRule(rule, Char), ~resp.error, V!Succeeded(resp),
         rule.type = "EMPTY", rule.jsonpath = V!NoPath
  PROVE  V!Verify(rule, resp).ok <=> ~V!Verify([rule EXCEPT !.type = "NOT_EMPTY"], resp).ok
<1> DEFINE other == [rule EXCEPT !.type = "NOT_EMPTY"]
<1>1. other.type = "NOT_EMPTY" /\ other.jsonpath = V!NoPath
  BY DEF IsRule
<1>2. V!Verify(rule, resp).ok <=> resp.body = << >>
  BY VerdictOfType, OkOfRecorded DEF V!verifyEmpty, V!ValueToCheck, V!ValidateString
<1>3. V!Verify(other, resp).ok <=> resp.body # << >>
  <2> HIDE DEF other
  <2> QED BY <1>1, VerdictOfType, OkOfRecorded DEF V!verifyNotEmpty, V!ValueToCheck, V!ValidateString
<1> QED BY <1>2, <1>3

\* Comparisons of the status are those of integers, and with 200 unless a number was given.
LEMMA StatusRules ==
  ASSUME NEW Char, NEW rule, NEW resp, IsRule(rule, Char), IsResponse(resp, Char), ~resp.error,
         rule.type = "STATUS_CODE", \A text \in Seq(Char) : Numeral(text) \subseteq Int
  PROVE  LET With(op) == V!Verify([rule EXCEPT !.operator = op], resp).ok
         IN /\ With("eq") <=> ~With("ne")
            /\ With("gte") <=> With("gt") \/ With("eq")
            /\ rule.expect.kind \notin {"int", "float64", "string"} => With("eq") = (resp.status = 200)
            /\ rule.expect.kind = "string" /\ Numeral(rule.expect.text) = {} =>
                 With("eq") = (resp.status = 200)
<1> DEFINE With(op) == V!Verify([rule EXCEPT !.operator = op], resp).ok
           code == V!ExpectedCode(rule.expect)
<1>1. code \in Int
  BY DEF IsRule, V!ExpectedCode
<1>2. rule.expect.kind \notin {"int", "float64", "string"} \/ (rule.expect.kind = "string" /\ Numeral(rule.expect.text) = {})
        => code = 200
  BY DEF V!ExpectedCode, V!IsNumber
<1>3. ASSUME NEW op \in {"eq", "ne", "gt", "gte"}
      PROVE  With(op) = V!CompareNumbers(resp.status, code, op)
  <2> DEFINE r == [rule EXCEPT !.operator = op]
  <2>1. r.type = "STATUS_CODE" /\ r.operator = op /\ r.expect = rule.expect
    BY DEF IsRule
  <2> HIDE DEF r
  <2>2. V!Operator(r, "eq") = op
    BY <1>3, <2>1 DEF V!Operator, V!NoOperator
  <2>3. V!Verify(r, resp) = V!verifyStatusCode(r, resp)
    BY <2>1, VerdictOfType
  <2>4. V!verifyStatusCode(r, resp).ok = V!CompareNumbers(resp.status, code, op)
    BY <2>1, <2>2, OkOfRecorded DEF V!verifyStatusCode
  <2> QED BY <2>3, <2>4 DEF r
<1>0. code \in Int /\ resp.status \in Int
  BY <1>1 DEF IsResponse
<1> HIDE DEF code
<1>4. /\ V!CompareNumbers(resp.status, code, "eq") = (resp.status = code)
      /\ V!CompareNumbers(resp.status, code, "ne") = (resp.status # code)
  BY DEF V!CompareNumbers
<1>5. /\ V!CompareNumbers(resp.status, code, "gt") <=> resp.status > code
      /\ V!CompareNumbers(resp.status, code, "gte") <=> resp.status >= code
  BY <1>0 DEF V!CompareNumbers
<1>6. resp.status >= code <=> resp.status > code \/ resp.status = code
  BY <1>0
<1> HIDE DEF With
<1>7. (With("eq") <=> ~With("ne")) /\ (With("gte") <=> With("gt") \/ With("eq"))
  BY <1>3, <1>4, <1>5, <1>6
<1>8. code = 200 => With("eq") = (resp.status = 200)
  BY <1>3, <1>4
<1> QED BY <1>2, <1>7, <1>8 DEF With
-----------------------------------------------------------------------------
(* Texts.                                                                  *)

LEMMA PrefixOf ==
  ASSUME NEW Char, NEW s \in Seq(Char), NEW t \in Seq(Char)
  PROVE  V!IsPrefix(s, t) <=> Len(s) <= Len(t) /\ \A i \in 1 .. Len(s) : s[i] = t[i]
<1>1. CASE Len(s) <= Len(t)
  <2>1. /\ SubSeq(s, 1, Len(s)) = s /\ Len(SubSeq(t, 1, Len(s))) = Len(s)
        /\ SubSeq(t, 1, Len(s)) \in Seq(Char)
        /\ \A i \in 1 .. Len(s) : SubSeq(t, 1, Len(s))[i] = t[i]
    BY <1>1, SubSeqProperties, SubSeqFull
  <2>2. s = SubSeq(t, 1, Len(s)) <=> \A i \in 1 .. Len(s) : s[i] = t[i]
    BY <2>1, SeqEqual
  <2> QED BY <1>1, <2>1, <2>2 DEF V!IsPrefix
<1> QED BY <1>1 DEF V!IsPrefix

\* What a text begins or ends with is in it.
LEMMA ContainsEnds ==
  ASSUME NEW Char, NEW s \in Seq(Char), NEW t \in Seq(Char)
  PROVE  /\ V!ValidateString(t, s, "hasPrefix") => V!ValidateString(t, s, "contains")
         /\ V!ValidateString(t, s, "hasSuffix") => V!ValidateString(t, s, "contains")
<1>1. ASSUME V!IsPrefix(s, t) PROVE \E i \in 0 .. Len(t) : V!IsPrefix(s, SubSeq(t, i + 1, Len(t)))
  <2>1. SubSeq(t, 1, Len(t)) = t /\ 0 + 1 = 1
    BY SubSeqFull
  <2>2. V!IsPrefix(s, SubSeq(t, 0 + 1, Len(t)))
    BY <1>1, <2>1
  <2>3. 0 \in 0 .. Len(t)
    OBVIOUS
  <2> QED BY <2>2, <2>3
<1>2. ASSUME V!IsSuffix(s, t) PROVE \E i \in 0 .. Len(t) : V!IsPrefix(s, SubSeq(t, i + 1, Len(t)))
  <2> DEFINE n == Len(t) - Len(s)
             end == SubSeq(t, n + 1, Len(t))
  <2>1. V!Reverse(s) \in Seq(Char) /\ V!Reverse(t) \in Seq(Char)
        /\ Len(V!Reverse(s)) = Len(s) /\ Len(V!Reverse(t)) = Len(t)
    BY DEF V!Reverse
  <2>2. Len(s) <= Len(t) /\ \A i \in 1 .. Len(s) : V!Reverse(s)[i] = V!Reverse(t)[i]
    BY <1>2, <2>1, PrefixOf DEF V!IsSuffix
  <2>3. \A i \in 1 .. Len(s) : s[i] = t[n + i]
    <3> TAKE i \in 1 .. Len(s)
    <3>1. Len(s) - i + 1 \in 1 .. Len(s)
      OBVIOUS
    <3>2. V!Reverse(s)[Len(s) - i + 1] = s[i] /\ V!Reverse(t)[Len(s) - i + 1] = t[n + i]
      BY <2>2, <3>1 DEF V!Reverse
    <3> QED BY <2>2, <3>1, <3>2
  <2>4. end \in Seq(Char) /\ Len(end) = Len(s) /\ \A i \in 1 .. Len(s) : end[i] = t[n + i]
    BY <2>2, SubSeqProperties
  <2>5. n \in 0 .. Len(t)
    BY <2>2
  <2> HIDE DEF end, n
  <2>6. V!IsPrefix(s, end)
    BY <2>3, <2>4, PrefixOf
  <2> QED BY <2>5, <2>6 DEF end
<1> QED BY <1>1, <1>2 DEF V!ValidateString

LEMMA EndsAreContained ==
  ASSUME NEW Char, NEW rule, NEW resp, IsRule(rule, Char), IsResponse(resp, Char), ~resp.error,
         rule.type \in {"PREFIX", "SUFFIX"}, rule.jsonpath = V!NoPath, V!Verify(rule, resp).ok
  PROVE  V!Verify([rule EXCEPT !.type = "CONTAINS"], resp).ok
<1> DEFINE other == [rule EXCEPT !.type = "CONTAINS"]
<1>1. other.type = "CONTAINS" /\ other.expect = rule.expect
  BY DEF IsRule
<1>2. resp.body \in Seq(Char) /\ rule.expect.text \in Seq(Char)
  BY DEF IsRule, IsResponse
<1>3. /\ V!Succeeded(resp) /\ rule.expect.kind = "string"
      /\ \/ V!ValidateString(resp.body, rule.expect.text, "hasPrefix")
         \/ V!ValidateString(resp.body, rule.expect.text, "hasSuffix")
  <2>1. CASE rule.type = "PREFIX"
    BY <2>1, VerdictOfType, OkOfRecorded DEF V!verifyPrefix, V!ValueToCheck
  <2>2. CASE rule.type = "SUFFIX"
    BY <2>2, VerdictOfType, OkOfRecorded DEF V!verifySuffix, V!ValueToCheck
  <2> QED BY <2>1, <2>2
<1>4. V!ValidateString(resp.body, rule.expect.text, "contains")
  BY <1>2, <1>3, ContainsEnds
<1> HIDE DEF other
<1>5. V!Verify(other, resp) = V!verifyContains(other, resp)
  BY <1>1, VerdictOfType
<1>6. V!verifyContains(other, resp).ok
  BY <1>1, <1>3, <1>4, OkOfRecorded DEF V!verifyContains
<1> QED BY <1>5, <1>6 DEF other
-----------------------------------------------------------------------------
(* White space around a body.                                              *)

LEMMA NatLeast == \A T \in SUBSET Nat : T # {} => \E m \in T : \A k \in T : m <= k
<1>1. IsWellFoundedOn(OpToRel(<, Nat), Nat)
  BY NatLessThanWellFounded
<1>2. \A x, y \in Nat : <<y, x>> \in OpToRel(<, Nat) <=> y < x
  BY DEF OpToRel
<1>3. ASSUME NEW T \in SUBSET Nat, T # {} PROVE \E m \in T : \A k \in T : m <= k
  <2>1. PICK m \in T : \A k \in T : ~(<<k, m>> \in OpToRel(<, Nat))
    BY <1>1, <1>3, WFMin
  <2>2. \A k \in T : ~(k < m)
    BY <1>2, <2>1
  <2> QED BY <2>2
<1> QED BY <1>3

LEMMA EndsAre ==
  ASSUME NEW I \in SUBSET Int, NEW a \in I, NEW b \in I, \A i \in I : a <= i /\ i <= b
  PROVE  V!Min(I) = a /\ V!Max(I) = b
<1>0. I \subseteq Int /\ a \in Int /\ b \in Int
  OBVIOUS
<1>1. V!Min(I) = a
  <2>1. V!Min(I) \in I /\ \A y \in I : V!Min(I) <= y
    BY <1>0 DEF V!Min
  <2>2. V!Min(I) \in Int /\ V!Min(I) <= a /\ a <= V!Min(I)
    BY <1>0, <2>1
  <2> QED BY <1>0, <2>2
<1>2. V!Max(I) = b
  <2>1. V!Max(I) \in I /\ \A y \in I : V!Max(I) >= y
    BY <1>0 DEF V!Max
  <2>2. V!Max(I) \in Int /\ V!Max(I) >= b /\ b >= V!Max(I)
    BY <1>0, <2>1
  <2> QED BY <1>0, <2>2
<1> QED BY <1>1, <1>2

\* A set of indexes has its ends, and a shifted one the ends shifted.
LEMMA Ends ==
  ASSUME NEW n \in Nat, NEW I \in SUBSET (1 .. n), I # {},
         NEW J \in SUBSET Nat, J = {i + 1 : i \in I}
  PROVE  /\ V!Min(I) \in I /\ V!Max(I) \in I /\ \A i \in I : V!Min(I) <= i /\ i <= V!Max(I)
         /\ V!Min(J) = V!Min(I) + 1 /\ V!Max(J) = V!Max(I) + 1
<1>1. PICK a \in I : \A i \in I : a <= i
  BY NatLeast
<1>2. PICK b \in I : \A i \in I : i <= b
  <2> DEFINE T == {n - i : i \in I}
  <2>1. T \in SUBSET Nat /\ T # {}
    OBVIOUS
  <2>2. PICK m \in T : \A k \in T : m <= k
    BY <2>1, NatLeast
  <2>3. PICK i \in I : m = n - i
    OBVIOUS
  <2>4. \A j \in I : n - j \in T
    OBVIOUS
  <2>5. \A j \in I : n - i <= n - j
    BY <2>2, <2>3, <2>4
  <2>6. \A j \in I : j <= i
    BY <2>5
  <2> QED BY <2>6
<1>3. V!Min(I) = a /\ V!Max(I) = b
  BY <1>1, <1>2, EndsAre
<1>4. V!Min(J) = a + 1 /\ V!Max(J) = b + 1
  <2>1. a + 1 \in J /\ b + 1 \in J /\ \A j \in J : a + 1 <= j /\ j <= b + 1
    BY <1>1, <1>2
  <2>2. J \in SUBSET Int
    OBVIOUS
  <2> QED BY <2>1, <2>2, EndsAre
<1> QED BY <1>1, <1>2, <1>3, <1>4

LEMMA TrimOfPadded ==
  ASSUME NEW Char, Blank \in Char, NEW t \in Seq(Char)
  PROVE  V!TrimSpace(<<Blank>> \o t \o <<Blank>>) = V!TrimSpace(t)
<1> DEFINE p == <<Blank>> \o t \o <<Blank>>
           I == {i \in DOMAIN t : t[i] # Blank}
           J == {i \in DOMAIN p : p[i] # Blank}
<1>1. /\ p \in Seq(Char) /\ Len(p) = Len(t) + 2
      /\ \A i \in 1 .. Len(t) : p[i + 1] = t[i]
      /\ p[1] = Blank /\ p[Len(t) + 2] = Blank
  OBVIOUS
<1>2. J = {i + 1 : i \in I}
  <2>1. \A i \in 1 .. Len(p) : i = 1 \/ i = Len(t) + 2 \/ i - 1 \in 1 .. Len(t)
    BY <1>1
  <2> QED BY <1>1, <2>1
<1>3. CASE I = {}
  BY <1>2, <1>3 DEF V!TrimSpace
<1>4. CASE I # {}
  <2>1. I \in SUBSET (1 .. Len(t)) /\ J \in SUBSET Nat
    BY <1>1
  <2> HIDE DEF p, I, J
  <2>2. /\ V!Min(I) \in I /\ V!Max(I) \in I /\ V!Min(I) <= V!Max(I)
        /\ V!Min(J) = V!Min(I) + 1 /\ V!Max(J) = V!Max(I) + 1
    <3>1. Len(t) \in Nat
      OBVIOUS
    <3> QED BY <1>2, <1>4, <2>1, <3>1, Ends
  <2> DEFINE a == V!Min(I)
             b == V!Max(I)
  <2>3. a \in 1 .. Len(t) /\ b \in 1 .. Len(t) /\ a <= b
    BY <2>1, <2>2
  <2> HIDE DEF a, b
  <2>4. SubSeq(p, a + 1, b + 1) = SubSeq(t, a, b)
    <3> DEFINE u == SubSeq(p, a + 1, b + 1)
               v == SubSeq(t, a, b)
    <3>1. u \in Seq(Char) /\ Len(u) = b - a + 1 /\ \A i \in 1 .. b - a + 1 : u[i] = p[a + i]
      BY <1>1, <2>3, SubSeqProperties
    <3>2. v \in Seq(Char) /\ Len(v) = b - a + 1 /\ \A i \in 1 .. b - a + 1 : v[i] = t[a + i - 1]
      BY <2>3, SubSeqProperties
    <3>3. \A i \in 1 .. b - a + 1 : a + i - 1 \in 1 .. Len(t) /\ (a + i - 1) + 1 = a + i
      BY <2>3
    <3> HIDE DEF u, v
    <3>4. \A i \in 1 .. b - a + 1 : u[i] = v[i]
      BY <1>1, <3>1, <3>2, <3>3
    <3> QED BY <3>1, <3>2, <3>4, SeqEqual DEF u, v
  <2>5. J # {}
    BY <1>2, <1>4
  <2> QED BY <1>4, <2>2, <2>4, <2>5 DEF V!TrimSpace, a, b, p, I, J
<1> QED BY <1>3, <1>4

LEMMA PaddingIsIgnored ==
  ASSUME NEW Char, Blank \in Char, NEW rule, NEW resp, IsResponse(resp, Char),
         rule.type \in V!Formats, rule.jsonpath = V!NoPath
  PROVE  V!Verify(rule, resp).ok
           = V!Verify(rule, [resp EXCEPT !.body = <<Blank>> \o @ \o <<Blank>>]).ok
<1> DEFINE padded == [resp EXCEPT !.body = <<Blank>> \o @ \o <<Blank>>]
<1>1. /\ padded.error = resp.error /\ padded.status = resp.status
      /\ padded.body = <<Blank>> \o resp.body \o <<Blank>>
  BY DEF IsResponse
<1> HIDE DEF padded
<1>2. V!TrimSpace(padded.body) = V!TrimSpace(resp.body)
  BY <1>1, TrimOfPadded DEF IsResponse
<1>3. V!Succeeded(padded) = V!Succeeded(resp)
  BY <1>1 DEF V!Succeeded
<1>4. V!verifyFormat(rule, padded) = V!verifyFormat(rule, resp)
  BY <1>2, <1>3 DEF V!verifyFormat
<1>5. V!Verify(rule, padded) = V!Verify(rule, resp)
  <2>1. CASE resp.error
    BY <1>1, <2>1 DEF V!Verify
  <2>2. CASE ~resp.error
    BY <1>1, <1>4, <2>2, VerdictOfType
  <2> QED BY <2>1, <2>2
<1> QED BY <1>5 DEF padded
-----------------------------------------------------------------------------
\* Rules and responses whose texts are over some characters, and what a text denotes.
RulesAssumption(Char) ==
  /\ Blank \in Char /\ \A text \in Seq(Char) : Numeral(text) \subseteq Int
  /\ \A rule \in Rules : IsRule(rule, Char)
  /\ \A resp \in Responses : IsResponse(resp, Char)

LEMMA VerdictsAgree ==
  ASSUME NEW Char, RulesAssumption(Char)
  PROVE  AllRulesAgree
<1> USE DEF V!RulesAgree, AllRulesAgree, RulesAssumption
<1> TAKE rule \in Rules, resp \in Responses
<1> DEFINE v == V!Verify(rule, resp)
           Other(type) == V!Verify([rule EXCEPT !.type = type], resp).ok
           With(op) == V!Verify([rule EXCEPT !.operator = op], resp).ok
<1>1. resp.error => ~v.ok
  BY VerdictRecorded DEF V!Silently
<1>2. v.recorded = IF resp.error \/ rule.type \notin V!Registered THEN << >> ELSE <<v.ok>>
  BY VerdictRecorded, VerdictOfType DEF V!Silently
<1>3. v.ok /\ rule.type \in V!Content => V!Succeeded(resp) /\ resp.status < 300
  BY <1>1, WhatPassing DEF V!Succeeded
<1>4. rule.type = "EMPTY" /\ V!Succeeded(resp) /\ ~resp.error /\ rule.jsonpath = V!NoPath =>
        (v.ok <=> ~Other("NOT_EMPTY"))
  BY EmptyOrNot
<1>5. rule.type = "STATUS_CODE" /\ ~resp.error =>
        /\ With("eq") <=> ~With("ne")
        /\ With("gte") <=> With("gt") \/ With("eq")
        /\ rule.expect.kind \notin {"int", "float64", "string"} => With("eq") = (resp.status = 200)
        /\ rule.expect.kind = "string" /\ Numeral(rule.expect.text) = {} =>
             With("eq") = (resp.status = 200)
  <2>1. SUFFICES ASSUME rule.type = "STATUS_CODE", ~resp.error
                 PROVE  /\ With("eq") <=> ~With("ne")
                        /\ With("gte") <=> With("gt") \/ With("eq")
                        /\ rule.expect.kind \notin {"int", "float64", "string"} => With("eq") = (resp.status = 200)
                        /\ rule.expect.kind = "string" /\ Numeral(rule.expect.text) = {} =>
                             With("eq") = (resp.status = 200)
    OBVIOUS
  <2> QED BY <2>1, StatusRules
<1>6. v.ok /\ rule.type \in {"PREFIX", "SUFFIX"} /\ rule.jsonpath = V!NoPath => Other("CONTAINS")
  BY <1>1, EndsAreContained
<1>7. /\ v.ok /\ rule.type \in {"CONTAINS", "REGEX", "PREFIX", "SUFFIX"} => rule.expect.kind = "string"
      /\ v.ok /\ rule.type \in {"RESPONSE_TIME", "RESPONSE_SIZE", "LENGTH"} => V!IsNumber(rule.expect)
  BY <1>1, WhatPassing
<1>8. rule.type \in V!Formats /\ rule.jsonpath = V!NoPath =>
        v.ok = V!Verify(rule, [resp EXCEPT !.body = <<Blank>> \o @ \o <<Blank>>]).ok
  BY PaddingIsIgnored
<1>9. QED
  BY <1>1, <1>2, <1>3, <1>4, <1>5, <1>6, <1>7, <1>8

\* For all rules and responses, over any characters, and whatever the formats and schemas are:
\* a verdict is what was recorded; nothing about the content passes outside 2xx; opposite rules
\* are opposite; what begins or ends with a text contains it; padding a body does not change
\* its format; and an expectation of the wrong type never passes (verify/builtin.go).
THEOREM RulesAlwaysAgree ==
  ASSUME NEW Char, RulesAssumption(Char)
  PROVE  Spec => []RulesAgree
<1>1. IInv => RulesAgree
  BY VerdictsAgree DEF IInv, PlaceInv, RulesAgree
<1> QED BY <1>1, InitInv, InvStep, PTL DEF Spec
-----------------------------------------------------------------------------
(* The search for an order and the selectors, for any lists of APIs.  What *)
(* Dependency computes step by step, over the names of a list or from one  *)
(* depth to the next, is found by counting up (CountsUp).                  *)

\* A set that holds 0, and with each number the next one up to n, holds all up to n.
LEMMA CountsUp ==
  ASSUME NEW n \in Nat, NEW T, 0 \in T, \A i \in 1 .. n : i - 1 \in T => i \in T
  PROVE  \A i \in 0 .. n : i \in T
<1> DEFINE Bad == {i \in 0 .. n : i \notin T}
<1>1. SUFFICES ASSUME Bad # {} PROVE FALSE
  OBVIOUS
<1>2. Bad \in SUBSET Nat
  OBVIOUS
<1> HIDE DEF Bad
<1>3. PICK m \in Bad : \A k \in Bad : m <= k
  BY <1>1, <1>2, NatLeast
<1>4. m \in 0 .. n /\ m \notin T
  BY <1>3 DEF Bad
<1>5. m \in 1 .. n /\ m - 1 \in 0 .. n /\ m - 1 \notin Bad
  BY <1>2, <1>3, <1>4
<1>6. m - 1 \in T
  BY <1>5 DEF Bad
<1> QED BY <1>4, <1>5, <1>6

\* What starts with a value and goes on by steps, as long as they stay in a set, exists.
Runs(f, n, T, start, step) ==
  f \in [0 .. n -> T] /\ f[0] = start /\ \A i \in 1 .. n : f[i] = step[i][f[i - 1]]

LEMMA RunExists ==
  ASSUME NEW n \in Nat, NEW T, NEW start \in T, NEW step,
         \A i \in 1 .. n : \A t \in T : step[i][t] \in T
  PROVE  \E f : Runs(f, n, T, start, step)
<1> DEFINE Defined == {m \in 0 .. n : \E f : Runs(f, m, T, start, step)}
<1>1. 0 \in Defined
  <2>1. Runs([i \in 0 .. 0 |-> start], 0, T, start, step)
    BY DEF Runs
  <2> QED BY <2>1
<1>2. ASSUME NEW m \in 1 .. n, m - 1 \in Defined PROVE m \in Defined
  <2>1. PICK g : Runs(g, m - 1, T, start, step)
    BY <1>2
  <2> DEFINE f == [i \in 0 .. m |-> IF i = m THEN step[m][g[m - 1]] ELSE g[i]]
  <2>2. f \in [0 .. m -> T] /\ f[0] = start
    BY <2>1 DEF Runs
  <2>3. ASSUME NEW i \in 1 .. m PROVE f[i] = step[i][f[i - 1]]
    BY <2>1 DEF Runs
  <2> HIDE DEF f
  <2>4. Runs(f, m, T, start, step)
    BY <2>2, <2>3 DEF Runs
  <2> QED BY <2>4
<1> HIDE DEF Defined
<1>3. \A m \in 0 .. n : m \in Defined
  BY <1>1, <1>2, CountsUp
<1>4. n \in Defined
  BY <1>3
<1> QED BY <1>4 DEF Defined

\* What satisfies its equation stays in the set.
LEMMA RunIs ==
  ASSUME NEW n \in Nat, NEW T, NEW start \in T, NEW step,
         \A i \in 1 .. n : \A t \in T : step[i][t] \in T,
         NEW f, f = [i \in 0 .. n |-> f[i]], f[0] = start,
         \A i \in 1 .. n : f[i - 1] \in T => f[i] = step[i][f[i - 1]]
  PROVE  Runs(f, n, T, start, step)
<1> DEFINE Right == {i \in 0 .. n : f[i] \in T}
<1>1. 0 \in Right
  OBVIOUS
<1>2. ASSUME NEW i \in 1 .. n, i - 1 \in Right PROVE i \in Right
  <2>1. f[i] = step[i][f[i - 1]] /\ f[i - 1] \in T
    BY <1>2
  <2> QED BY <2>1
<1> HIDE DEF Right
<1>3. \A i \in 0 .. n : i \in Right
  BY <1>1, <1>2, CountsUp
<1>4. \A i \in 0 .. n : f[i] \in T
  BY <1>3 DEF Right
<1>5. f \in [0 .. n -> T]
  BY <1>4
<1> QED BY <1>4, <1>5 DEF Runs

-----------------------------------------------------------------------------
(* The search.                                                             *)

\* The loop over the names goes on from one to the next.
Visits(after, visit, T, start, names) ==
  /\ after \in [0 .. Len(names) -> T] /\ after[0] = start
  /\ \A i \in 1 .. Len(names) : after[i] = visit[names[i]][after[i - 1]]

LEMMA VisitAllIs ==
  ASSUME NEW X, NEW T, NEW visit, \A x \in X : \A t \in T : visit[x][t] \in T,
         NEW start \in T, NEW names \in Seq(X)
  PROVE  \E after : Visits(after, visit, T, start, names) /\ D!VisitAll(visit, start, names) = after[Len(names)]
<1> DEFINE n == Len(names)
           step == [i \in 1 .. n |-> [t \in T |-> visit[names[i]][t]]]
           Rec(f) == [i \in 0 .. n |-> IF i = 0 THEN start ELSE visit[names[i]][f[i - 1]]]
           after == CHOOSE f : f = Rec(f)
<1>1. n \in Nat /\ \A i \in 1 .. n : names[i] \in X
  OBVIOUS
<1>2. \A i \in 1 .. n : \A t \in T : step[i][t] \in T /\ step[i][t] = visit[names[i]][t]
  BY <1>1
<1>3. PICK g : Runs(g, n, T, start, step)
  <2> HIDE DEF n, step
  <2> QED BY <1>1, <1>2, RunExists
<1>4. g = Rec(g)
  <2>1. \A i \in 1 .. n : g[i] = visit[names[i]][g[i - 1]] /\ g[i - 1] \in T
    <3> HIDE DEF n, step
    <3>1. \A i \in 1 .. n : g[i] = step[i][g[i - 1]] /\ g[i - 1] \in T
      BY <1>1, <1>3 DEF Runs
    <3> QED BY <1>2, <3>1
  <2> HIDE DEF n, step
  <2> QED BY <1>1, <1>3, <2>1 DEF Runs
<1>5. after = Rec(after)
  <2> HIDE DEF Rec
  <2> QED BY <1>4
<1>6. D!VisitAll(visit, start, names) = after[n]
  BY DEF D!VisitAll
<1> HIDE DEF after
<1>7. Runs(after, n, T, start, step)
  <2>1. after = [i \in 0 .. n |-> after[i]] /\ after[0] = start
    <3> HIDE DEF n
    <3> QED BY <1>1, <1>5
  <2>2. \A i \in 1 .. n : after[i - 1] \in T => after[i] = step[i][after[i - 1]]
    <3>1. \A i \in 1 .. n : after[i] = visit[names[i]][after[i - 1]]
      <4> HIDE DEF n
      <4> QED BY <1>1, <1>5
    <3> HIDE DEF n, step
    <3> QED BY <1>2, <3>1
  <2> HIDE DEF n, step, Rec
  <2> QED BY <1>1, <1>2, <2>1, <2>2, RunIs
<1>8. Visits(after, visit, T, start, names)
  <2>1. \A i \in 1 .. n : after[i] = visit[names[i]][after[i - 1]]
    <3> HIDE DEF n, step
    <3> QED BY <1>1, <1>2, <1>7 DEF Runs
  <2> QED BY <1>7, <2>1 DEF Runs, Visits
<1> QED BY <1>6, <1>8

LEMMA SameCardinality == \A S : D!Cardinality(S) = Cardinality(S)
BY DEF D!Cardinality, Cardinality

IsMap(map) ==
  IsFiniteSet(DOMAIN map) /\ \A name \in DOMAIN map : map[name].dependsOn \in Seq(D!NamesIn(map))

Visitors(map) == [D!NamesIn(map) -> [D!Searches(map) -> D!Searches(map)]]

\* What visit does given what it does one level below.
Level(map, lower, depth) ==
  [name \in D!NamesIn(map) |-> [search \in D!Searches(map) |->
     IF search.failed \/ name \in search.visited THEN search
     ELSE IF name \in search.visiting \/ name \notin DOMAIN map \/ depth = 0
     THEN [search EXCEPT !.failed = TRUE]
     ELSE LET done == D!VisitAll(lower, [search EXCEPT !.visiting = @ \cup {name}], map[name].dependsOn)
          IN IF done.failed THEN done ELSE D!AppendName(done, name)]]

LEMMA StepsAreSearches ==
  ASSUME NEW map, NEW search \in D!Searches(map), NEW name \in D!NamesIn(map)
  PROVE  /\ [search EXCEPT !.failed = TRUE] \in D!Searches(map)
         /\ [search EXCEPT !.visiting = @ \cup {name}] \in D!Searches(map)
         /\ D!AppendName(search, name) \in D!Searches(map)
<1> DEFINE N == D!NamesIn(map)
<1>1. search \in [visited : SUBSET N, visiting : SUBSET N, order : Seq(N), failed : BOOLEAN] /\ name \in N
  BY DEF D!Searches
<1>2. Append(search.order, name) \in Seq(N)
  <2> HIDE DEF N
  <2> QED BY <1>1
<1> HIDE DEF N
<1>3. /\ [search EXCEPT !.failed = TRUE] \in [visited : SUBSET N, visiting : SUBSET N, order : Seq(N), failed : BOOLEAN]
      /\ [search EXCEPT !.visiting = @ \cup {name}]
           \in [visited : SUBSET N, visiting : SUBSET N, order : Seq(N), failed : BOOLEAN]
  BY <1>1
<1>4. D!AppendName(search, name) \in [visited : SUBSET N, visiting : SUBSET N, order : Seq(N), failed : BOOLEAN]
  BY <1>1, <1>2 DEF D!AppendName
<1> QED BY <1>3, <1>4 DEF N, D!Searches

LEMMA LevelIsVisitor ==
  ASSUME NEW map, IsMap(map), NEW depth \in Nat, NEW lower, depth # 0 => lower \in Visitors(map)
  PROVE  Level(map, lower, depth) \in Visitors(map)
<1> DEFINE N == D!NamesIn(map)
           T == D!Searches(map)
<1> SUFFICES ASSUME NEW name \in N, NEW search \in T PROVE Level(map, lower, depth)[name][search] \in T
  BY DEF Level, Visitors
<1> DEFINE done == D!VisitAll(lower, [search EXCEPT !.visiting = @ \cup {name}], map[name].dependsOn)
<1>1. ASSUME depth # 0, name \in DOMAIN map PROVE done \in T
  <2>1. \A x \in N : \A t \in T : lower[x][t] \in T
    BY <1>1 DEF Visitors
  <2>2. [search EXCEPT !.visiting = @ \cup {name}] \in T /\ map[name].dependsOn \in Seq(N)
    BY <1>1, StepsAreSearches DEF IsMap
  <2> HIDE DEF N, T
  <2>3. PICK after : /\ Visits(after, lower, T, [search EXCEPT !.visiting = @ \cup {name}], map[name].dependsOn)
                     /\ done = after[Len(map[name].dependsOn)]
    BY <2>1, <2>2, VisitAllIs
  <2>4. Len(map[name].dependsOn) \in Nat
    BY <2>2
  <2> QED BY <2>3, <2>4 DEF Visits
<1>2. done \in T => D!AppendName(done, name) \in T
  BY StepsAreSearches
<1>3. [search EXCEPT !.failed = TRUE] \in T
  BY StepsAreSearches
<1>4. Level(map, lower, depth)[name][search] =
        IF search.failed \/ name \in search.visited THEN search
        ELSE IF name \in search.visiting \/ name \notin DOMAIN map \/ depth = 0
        THEN [search EXCEPT !.failed = TRUE]
        ELSE IF done.failed THEN done ELSE D!AppendName(done, name)
  BY DEF Level
<1> HIDE DEF done, T, N
<1> QED BY <1>1, <1>2, <1>3, <1>4

\* The visits by how many names may be visited one below the other.
Levels(map, below) ==
  LET n == Cardinality(DOMAIN map) IN
  /\ below \in [0 .. n -> Visitors(map)]
  /\ \A depth \in 0 .. n : below[depth] = Level(map, below[depth - 1], depth)

LEMMA VisitIs ==
  ASSUME NEW map, IsMap(map)
  PROVE  \E below : Levels(map, below) /\ D!visit(map) = below[Cardinality(DOMAIN map)]
<1> DEFINE n == Cardinality(DOMAIN map)
           T == Visitors(map)
           start == Level(map, {}, 0)
           step == [i \in 1 .. n |-> [lower \in T |-> Level(map, lower, i)]]
           Rec(f) == [depth \in 0 .. n |-> Level(map, f[depth - 1], depth)]
           below == CHOOSE f : f = Rec(f)
<1>1. n \in Nat
  BY FS_CardinalityType DEF IsMap
<1>2. \A lower : Level(map, lower, 0) = start
  BY DEF Level
<1>3. start \in T
  BY LevelIsVisitor
<1>4. \A i \in 1 .. n : \A lower \in T : step[i][lower] = Level(map, lower, i) /\ step[i][lower] \in T
  <2> HIDE DEF n, T
  <2> QED BY <1>1, LevelIsVisitor DEF T
<1>5. PICK g : Runs(g, n, T, start, step)
  <2> HIDE DEF n, step, T, start
  <2> QED BY <1>1, <1>3, <1>4, RunExists
<1>6. g = Rec(g)
  <2> HIDE DEF n, T, start, step
  <2>1. g[0] = Level(map, g[0 - 1], 0)
    BY <1>2, <1>5 DEF Runs
  <2>2. \A i \in 1 .. n : g[i] = Level(map, g[i - 1], i)
    BY <1>1, <1>4, <1>5 DEF Runs
  <2>3. \A i \in 0 .. n : g[i] = Level(map, g[i - 1], i)
    BY <1>1, <2>1, <2>2
  <2>4. g = [i \in 0 .. n |-> g[i]]
    BY <1>5 DEF Runs
  <2> QED BY <2>3, <2>4
<1>7. below = Rec(below)
  <2> HIDE DEF Rec
  <2> QED BY <1>6
<1>8. D!visit(map) = below[n]
  <2>1. D!Cardinality(DOMAIN map) = n
    BY SameCardinality
  <2>2. D!visit(map) = (CHOOSE f : f = [depth \in 0 .. D!Cardinality(DOMAIN map) |-> Level(map, f[depth - 1], depth)])[D!Cardinality(DOMAIN map)]
    BY DEF D!visit, Level
  <2> QED BY <2>1, <2>2
<1> HIDE DEF below
<1>9. \A i \in 0 .. n : below[i] = Level(map, below[i - 1], i)
  <2> HIDE DEF n
  <2> QED BY <1>7
<1>10. Runs(below, n, T, start, step)
  <2>1. below = [i \in 0 .. n |-> below[i]]
    BY <1>7
  <2> HIDE DEF n, T, start, step, Rec
  <2>2. below[0] = start
    BY <1>1, <1>2, <1>9
  <2>3. \A i \in 1 .. n : below[i - 1] \in T => below[i] = step[i][below[i - 1]]
    BY <1>1, <1>4, <1>9
  <2> QED BY <1>1, <1>3, <1>4, <2>1, <2>2, <2>3, RunIs
<1> QED BY <1>8, <1>9, <1>10 DEF Levels, Runs

Dependencies(map, name) == {map[name].dependsOn[i] : i \in 1 .. Len(map[name].dependsOn)}

\* What holds between two visits, as long as none has failed.
Good(map, search) ==
  /\ search \in D!Searches(map) /\ ~search.failed
  /\ \A name : name \in search.visited <=> \E i \in 1 .. Len(search.order) : search.order[i] = name
  /\ \A name \in search.visited : name \in DOMAIN map /\ name \notin search.visiting
  /\ search.visiting \subseteq DOMAIN map
  /\ \A i, j \in 1 .. Len(search.order) : search.order[i] = search.order[j] => i = j
  /\ \A i \in 1 .. Len(search.order) : \A dep \in Dependencies(map, search.order[i]) :
       \E j \in 1 .. i - 1 : search.order[j] = dep

\* Where visits of some names lead to.
Leads(map, search, to, names) ==
  to.failed \/ /\ Good(map, to) /\ to.visiting = search.visiting
               /\ search.visited \subseteq to.visited /\ names \subseteq to.visited

Sound(map, visit) ==
  \A name \in D!NamesIn(map) : \A search \in D!Searches(map) :
    /\ visit[name][search] \in D!Searches(map)
    /\ search.failed => visit[name][search] = search
    /\ Good(map, search) => Leads(map, search, visit[name][search], {name})

LEMMA AppendIsGood ==
  ASSUME NEW map, NEW search, Good(map, search), NEW name \in DOMAIN map, name \in search.visiting,
         name \in D!NamesIn(map), Dependencies(map, name) \subseteq search.visited
  PROVE  /\ Good(map, D!AppendName(search, name))
         /\ D!AppendName(search, name).visiting = search.visiting \ {name}
         /\ D!AppendName(search, name).visited = search.visited \cup {name}
<1> DEFINE to == D!AppendName(search, name)
           n == Len(search.order)
           N == D!NamesIn(map)
<1>1. search \in [visited : SUBSET N, visiting : SUBSET N, order : Seq(N), failed : BOOLEAN]
  BY DEF Good, D!Searches
<1>2. search.order \in Seq(N) /\ n \in Nat
  <2> HIDE DEF N
  <2> QED BY <1>1
<1>3. /\ to.visiting = search.visiting \ {name} /\ to.visited = search.visited \cup {name}
      /\ to.order = Append(search.order, name) /\ to.failed = search.failed
  <2> HIDE DEF N
  <2> QED BY <1>1 DEF D!AppendName
<1>4. to \in D!Searches(map)
  BY StepsAreSearches DEF Good
<1> HIDE DEF to
<1>5. /\ Len(to.order) = n + 1 /\ to.order[n + 1] = name
      /\ \A i \in 1 .. n : to.order[i] = search.order[i]
  <2> HIDE DEF N
  <2> QED BY <1>2, <1>3
<1> HIDE DEF n, N
<1>6. name \notin search.visited
  BY DEF Good
<1>7. \A x : x \in to.visited <=> \E i \in 1 .. Len(to.order) : to.order[i] = x
  <2> TAKE x
  <2>1. ASSUME x \in to.visited PROVE \E i \in 1 .. Len(to.order) : to.order[i] = x
    <3>1. CASE x = name
      <4>1. n + 1 \in 1 .. Len(to.order)
        BY <1>2, <1>5
      <4> QED BY <1>5, <3>1, <4>1
    <3>2. CASE x \in search.visited
      <4>1. PICK i \in 1 .. n : search.order[i] = x
        BY <3>2 DEF Good, n
      <4>2. i \in 1 .. Len(to.order)
        BY <1>2, <1>5
      <4> QED BY <1>5, <4>1, <4>2
    <3> QED BY <1>3, <2>1, <3>1, <3>2
  <2>2. ASSUME NEW i \in 1 .. Len(to.order), to.order[i] = x PROVE x \in to.visited
    <3>1. CASE i = n + 1
      BY <1>3, <1>5, <2>2, <3>1
    <3>2. CASE i \in 1 .. n
      BY <1>3, <1>5, <2>2, <3>2 DEF Good, n
    <3> QED BY <1>2, <1>5, <3>1, <3>2
  <2> QED BY <2>1, <2>2
<1>8. \A x \in to.visited : x \in DOMAIN map /\ x \notin to.visiting
  BY <1>3 DEF Good
<1>9. \A i, j \in 1 .. Len(to.order) : to.order[i] = to.order[j] => i = j
  <2>1. \A i, j \in 1 .. n : to.order[i] = to.order[j] => i = j
    BY <1>5 DEF Good, n
  <2>2. \A i \in 1 .. n : to.order[i] # name
    BY <1>5, <1>6 DEF Good, n
  <2> QED BY <1>2, <1>5, <2>1, <2>2
<1>10. ASSUME NEW i \in 1 .. Len(to.order), NEW dep \in Dependencies(map, to.order[i])
       PROVE  \E j \in 1 .. i - 1 : to.order[j] = dep
  <2>1. CASE i \in 1 .. n
    <3>1. PICK j \in 1 .. i - 1 : search.order[j] = dep
      BY <1>5, <1>10, <2>1 DEF Good, n
    <3>2. j \in 1 .. n
      BY <1>2, <2>1
    <3> QED BY <1>5, <3>1, <3>2
  <2>2. CASE i = n + 1
    <3>1. dep \in search.visited
      BY <1>5, <1>10, <2>2
    <3>2. PICK j \in 1 .. n : search.order[j] = dep
      BY <3>1 DEF Good, n
    <3>3. j \in 1 .. i - 1
      BY <1>2, <2>2
    <3> QED BY <1>5, <3>2, <3>3
  <2> QED BY <1>2, <1>5, <2>1, <2>2
<1>11. ~to.failed /\ to.visiting \subseteq DOMAIN map
  BY <1>3 DEF Good
<1>12. Good(map, to)
  BY <1>4, <1>7, <1>8, <1>9, <1>10, <1>11 DEF Good
<1> QED BY <1>3, <1>12 DEF to

LEMMA LeadsOn ==
  ASSUME NEW map, NEW a, NEW b, NEW c, NEW L, NEW M, ~b.failed, Leads(map, a, b, L), Leads(map, b, c, M)
  PROVE  Leads(map, a, c, L \cup M)
BY DEF Leads

\* The loop over the names is sound if the visits are.
LEMMA LoopIsSound ==
  ASSUME NEW map, NEW visit, Sound(map, visit), NEW search, Good(map, search), NEW names \in Seq(D!NamesIn(map))
  PROVE  /\ D!VisitAll(visit, search, names) \in D!Searches(map)
         /\ Leads(map, search, D!VisitAll(visit, search, names), {names[i] : i \in 1 .. Len(names)})
<1> DEFINE N == D!NamesIn(map)
           T == D!Searches(map)
           n == Len(names)
<1>1. \A x \in N : \A t \in T : visit[x][t] \in T
  BY DEF Sound
<1>2. search \in T
  BY DEF Good
<1>3. PICK after : Visits(after, visit, T, search, names) /\ D!VisitAll(visit, search, names) = after[n]
  <2> HIDE DEF N, T
  <2> QED BY <1>1, <1>2, VisitAllIs DEF N
<1>4. n \in Nat /\ \A i \in 1 .. n : names[i] \in N
  OBVIOUS
<1>5. after \in [0 .. n -> T] /\ after[0] = search /\ \A i \in 1 .. n : after[i] = visit[names[i]][after[i - 1]]
  BY <1>3 DEF Visits
<1> DEFINE Visited(i) == {names[k] : k \in 1 .. i}
           Led == {i \in 0 .. n : Leads(map, search, after[i], Visited(i))}
<1>6. 0 \in Led
  <2>1. Visited(0) = {}
    OBVIOUS
  <2>2. Leads(map, search, after[0], {})
    BY <1>5 DEF Leads
  <2> HIDE DEF Visited, n
  <2>3. 0 \in 0 .. n
    BY <1>4
  <2> QED BY <2>1, <2>2, <2>3
<1>7. ASSUME NEW i \in 1 .. n, i - 1 \in Led PROVE i \in Led
  <2>1. after[i - 1] \in T /\ names[i] \in N /\ after[i] = visit[names[i]][after[i - 1]]
    <3> HIDE DEF n, N, T
    <3> QED BY <1>4, <1>5
  <2>2. Leads(map, search, after[i - 1], Visited(i - 1))
    BY <1>7
  <2>3. Visited(i) = Visited(i - 1) \cup {names[i]}
    <3> HIDE DEF n
    <3>1. \A k : k \in 1 .. i <=> k \in 1 .. i - 1 \/ k = i
      BY <1>4
    <3> QED BY <3>1
  <2>4. i \in 0 .. n
    BY <1>4
  <2> HIDE DEF Visited
  <2>5. CASE after[i - 1].failed
    <3>1. after[i] = after[i - 1]
      BY <2>1, <2>5 DEF Sound
    <3> QED BY <2>4, <2>5, <3>1 DEF Leads
  <2>6. CASE ~after[i - 1].failed
    <3>1. Good(map, after[i - 1])
      BY <2>2, <2>6 DEF Leads
    <3>2. Leads(map, after[i - 1], after[i], {names[i]})
      BY <2>1, <3>1 DEF Sound
    <3> QED BY <2>2, <2>3, <2>4, <2>6, <3>2, LeadsOn
  <2> QED BY <2>5, <2>6
<1>8. n \in Led
  <2> HIDE DEF Led, n
  <2>1. \A i \in 0 .. n : i \in Led
    BY <1>4, <1>6, <1>7, CountsUp
  <2> QED BY <1>4, <2>1
<1>9. after[n] \in T
  BY <1>4, <1>5
<1> QED BY <1>3, <1>8, <1>9

\* Between names that can be ranked, a visit cannot fail if its name ranks below all that are
\* being visited and there are as many levels as its rank.
Ranks(map, rank) ==
  /\ rank \in [DOMAIN map -> Nat]
  /\ \A name \in DOMAIN map : \A dep \in Dependencies(map, name) :
       dep \in DOMAIN map /\ rank[dep] < rank[name]

Below(rank, search, name) == \A other \in search.visiting : rank[name] < rank[other]

Completes(map, visit, rank, depth) ==
  \A name \in DOMAIN map : \A search \in D!Searches(map) :
    Good(map, search) /\ rank[name] <= depth /\ Below(rank, search, name) => ~visit[name][search].failed

LEMMA LoopCompletes ==
  ASSUME NEW map, NEW visit, NEW rank, NEW depth, Sound(map, visit), Completes(map, visit, rank, depth),
         NEW search, Good(map, search), NEW names \in Seq(D!NamesIn(map)),
         \A i \in 1 .. Len(names) : names[i] \in DOMAIN map /\ rank[names[i]] <= depth /\ Below(rank, search, names[i])
  PROVE  ~D!VisitAll(visit, search, names).failed
<1> DEFINE N == D!NamesIn(map)
           T == D!Searches(map)
           n == Len(names)
<1>1. \A x \in N : \A t \in T : visit[x][t] \in T
  BY DEF Sound
<1>2. search \in T
  BY DEF Good
<1>3. PICK after : Visits(after, visit, T, search, names) /\ D!VisitAll(visit, search, names) = after[n]
  <2> HIDE DEF N, T
  <2> QED BY <1>1, <1>2, VisitAllIs DEF N
<1>4. n \in Nat /\ \A i \in 1 .. n : names[i] \in N
  OBVIOUS
<1>5. after \in [0 .. n -> T] /\ after[0] = search /\ \A i \in 1 .. n : after[i] = visit[names[i]][after[i - 1]]
  BY <1>3 DEF Visits
<1> DEFINE Fine == {i \in 0 .. n : Good(map, after[i]) /\ after[i].visiting = search.visiting}
<1>6. 0 \in Fine
  BY <1>4, <1>5
<1>7. ASSUME NEW i \in 1 .. n, i - 1 \in Fine PROVE i \in Fine
  <2>1. after[i - 1] \in T /\ names[i] \in N /\ after[i] = visit[names[i]][after[i - 1]]
    <3> HIDE DEF n, N, T
    <3> QED BY <1>4, <1>5
  <2>2. Good(map, after[i - 1]) /\ after[i - 1].visiting = search.visiting
    BY <1>7
  <2>3. Leads(map, after[i - 1], after[i], {names[i]})
    BY <2>1, <2>2 DEF Sound
  <2>4. ~after[i].failed
    BY <2>1, <2>2 DEF Completes, Below
  <2>5. i \in 0 .. n
    BY <1>4
  <2> QED BY <2>2, <2>3, <2>4, <2>5 DEF Leads
<1>8. n \in Fine
  <2> HIDE DEF Fine, n
  <2>1. \A i \in 0 .. n : i \in Fine
    BY <1>4, <1>6, <1>7, CountsUp
  <2> QED BY <1>4, <2>1
<1> QED BY <1>3, <1>8 DEF Good

LEMMA LevelUnfolds ==
  ASSUME NEW map, NEW lower, NEW depth, NEW name \in D!NamesIn(map), NEW search \in D!Searches(map)
  PROVE  LET done == D!VisitAll(lower, [search EXCEPT !.visiting = @ \cup {name}], map[name].dependsOn) IN
         Level(map, lower, depth)[name][search] =
           IF search.failed \/ name \in search.visited THEN search
           ELSE IF name \in search.visiting \/ name \notin DOMAIN map \/ depth = 0
           THEN [search EXCEPT !.failed = TRUE]
           ELSE IF done.failed THEN done ELSE D!AppendName(done, name)
BY DEF Level

\* To start with a name keeps the search good.
LEMMA EnterIsGood ==
  ASSUME NEW map, NEW search, Good(map, search), NEW name \in DOMAIN map, name \notin search.visited,
         name \in D!NamesIn(map)
  PROVE  /\ Good(map, [search EXCEPT !.visiting = @ \cup {name}])
         /\ [search EXCEPT !.visiting = @ \cup {name}].visiting = search.visiting \cup {name}
         /\ [search EXCEPT !.visiting = @ \cup {name}].visited = search.visited
<1> DEFINE to == [search EXCEPT !.visiting = @ \cup {name}]
           N == D!NamesIn(map)
<1>1. search \in [visited : SUBSET N, visiting : SUBSET N, order : Seq(N), failed : BOOLEAN]
  BY DEF Good, D!Searches
<1>2. to \in D!Searches(map)
  BY StepsAreSearches DEF Good
<1>3. /\ to.visiting = search.visiting \cup {name} /\ to.visited = search.visited
      /\ to.order = search.order /\ to.failed = search.failed
  <2> HIDE DEF N
  <2> QED BY <1>1
<1> HIDE DEF to
<1>4. Good(map, to)
  BY <1>2, <1>3 DEF Good
<1> QED BY <1>3, <1>4 DEF to

LEMMA LevelIsSound ==
  ASSUME NEW map, IsMap(map), NEW depth \in Nat, NEW lower, depth # 0 => lower \in Visitors(map) /\ Sound(map, lower)
  PROVE  Sound(map, Level(map, lower, depth))
<1> SUFFICES ASSUME NEW name \in D!NamesIn(map), NEW search \in D!Searches(map)
             PROVE  /\ Level(map, lower, depth)[name][search] \in D!Searches(map)
                    /\ search.failed => Level(map, lower, depth)[name][search] = search
                    /\ Good(map, search) => Leads(map, search, Level(map, lower, depth)[name][search], {name})
  BY DEF Sound
<1> DEFINE to == Level(map, lower, depth)[name][search]
           entered == [search EXCEPT !.visiting = @ \cup {name}]
           done == D!VisitAll(lower, entered, map[name].dependsOn)
<1>1. to \in D!Searches(map)
  BY LevelIsVisitor DEF Visitors
<1>2. to = IF search.failed \/ name \in search.visited THEN search
           ELSE IF name \in search.visiting \/ name \notin DOMAIN map \/ depth = 0
           THEN [search EXCEPT !.failed = TRUE]
           ELSE IF done.failed THEN done ELSE D!AppendName(done, name)
  BY LevelUnfolds
<1>3. search.failed => to = search
  BY <1>2
<1>4. ASSUME Good(map, search) PROVE Leads(map, search, to, {name})
  <2>1. CASE name \in search.visited
    <3>1. to = search
      BY <1>2, <2>1
    <3> HIDE DEF to
    <3> QED BY <1>4, <2>1, <3>1 DEF Leads
  <2>2. CASE name \notin search.visited /\ (name \in search.visiting \/ name \notin DOMAIN map \/ depth = 0)
    <3>1. [search EXCEPT !.failed = TRUE].failed
      BY DEF D!Searches
    <3> QED BY <1>2, <1>4, <2>2, <3>1 DEF Leads, Good
  <2>3. CASE name \notin search.visited /\ name \notin search.visiting /\ name \in DOMAIN map /\ depth # 0
    <3>1. Good(map, entered) /\ entered.visiting = search.visiting \cup {name} /\ entered.visited = search.visited
      BY <1>4, <2>3, EnterIsGood
    <3>2. map[name].dependsOn \in Seq(D!NamesIn(map))
      BY <2>3 DEF IsMap
    <3> HIDE DEF entered
    <3>3. Leads(map, entered, done, Dependencies(map, name))
      BY <2>3, <3>1, <3>2, LoopIsSound DEF Dependencies
    <3> HIDE DEF done
    <3>4. to = IF done.failed THEN done ELSE D!AppendName(done, name)
      BY <1>2, <1>4, <2>3 DEF Good
    <3> HIDE DEF to
    <3>5. CASE done.failed
      BY <3>4, <3>5 DEF Leads
    <3>6. CASE ~done.failed
      <4>1. /\ Good(map, done) /\ done.visiting = search.visiting \cup {name}
            /\ search.visited \subseteq done.visited /\ Dependencies(map, name) \subseteq done.visited
        BY <3>1, <3>3, <3>6 DEF Leads
      <4>2. /\ Good(map, to) /\ to.visiting = done.visiting \ {name} /\ to.visited = done.visited \cup {name}
        BY <2>3, <3>4, <3>6, <4>1, AppendIsGood
      <4> QED BY <2>3, <4>1, <4>2 DEF Leads
    <3> QED BY <3>5, <3>6
  <2> QED BY <2>1, <2>2, <2>3
<1> QED BY <1>1, <1>3, <1>4

LEMMA LevelCompletes ==
  ASSUME NEW map, IsMap(map), NEW rank, Ranks(map, rank), NEW depth \in Nat, NEW lower,
         depth # 0 => lower \in Visitors(map) /\ Sound(map, lower) /\ Completes(map, lower, rank, depth - 1),
         \A name \in DOMAIN map : rank[name] # 0
  PROVE  Completes(map, Level(map, lower, depth), rank, depth)
<1> SUFFICES ASSUME NEW name \in DOMAIN map, NEW search \in D!Searches(map), Good(map, search),
                    rank[name] <= depth, Below(rank, search, name)
             PROVE  ~Level(map, lower, depth)[name][search].failed
  BY DEF Completes
<1> DEFINE to == Level(map, lower, depth)[name][search]
           entered == [search EXCEPT !.visiting = @ \cup {name}]
           done == D!VisitAll(lower, entered, map[name].dependsOn)
<1>1. rank[name] \in Nat \ {0} /\ depth # 0 /\ name \in D!NamesIn(map)
  BY DEF Ranks, D!NamesIn
<1>2. to = IF search.failed \/ name \in search.visited THEN search
           ELSE IF name \in search.visiting \/ name \notin DOMAIN map \/ depth = 0
           THEN [search EXCEPT !.failed = TRUE]
           ELSE IF done.failed THEN done ELSE D!AppendName(done, name)
  BY <1>1, LevelUnfolds
<1>3. CASE name \in search.visited
  BY <1>2, <1>3 DEF Good
<1>4. CASE name \notin search.visited
  <2>1. name \notin search.visiting
    BY <1>1 DEF Below
  <2>2. Good(map, entered) /\ entered.visiting = search.visiting \cup {name}
    BY <1>1, <1>4, EnterIsGood
  <2>3. map[name].dependsOn \in Seq(D!NamesIn(map))
    BY DEF IsMap
  <2> HIDE DEF entered
  <2>4. ASSUME NEW i \in 1 .. Len(map[name].dependsOn)
        PROVE  /\ map[name].dependsOn[i] \in DOMAIN map /\ rank[map[name].dependsOn[i]] <= depth - 1
               /\ Below(rank, entered, map[name].dependsOn[i])
    <3> DEFINE dep == map[name].dependsOn[i]
    <3>1. dep \in DOMAIN map /\ rank[dep] < rank[name] /\ rank[dep] \in Nat
      BY DEF Ranks, Dependencies
    <3> HIDE DEF dep
    <3>2. \A other \in entered.visiting : rank[other] \in Nat
      BY <2>2 DEF Good, Ranks
    <3>3. \A other \in entered.visiting : rank[name] <= rank[other]
      BY <1>1, <2>2, <3>2 DEF Below
    <3>4. Below(rank, entered, dep)
      BY <1>1, <3>1, <3>2, <3>3 DEF Below
    <3>5. rank[dep] <= depth - 1
      BY <1>1, <3>1
    <3> QED BY <3>1, <3>4, <3>5 DEF dep
  <2>5. ~done.failed
    BY <1>1, <2>2, <2>3, <2>4, LoopCompletes
  <2>6. D!AppendName(done, name).failed = done.failed
    <3>1. done \in D!Searches(map)
      BY <1>1, <2>2, <2>3, LoopIsSound
    <3> HIDE DEF done
    <3> QED BY <3>1 DEF D!Searches, D!AppendName
  <2> QED BY <1>1, <1>2, <1>4, <2>1, <2>5, <2>6 DEF Good
<1> QED BY <1>3, <1>4

\* What visit does, whatever the names depend on.
LEMMA VisitIsSound ==
  ASSUME NEW map, IsMap(map)
  PROVE  Sound(map, D!visit(map))
<1> DEFINE n == Cardinality(DOMAIN map)
<1>1. PICK below : Levels(map, below) /\ D!visit(map) = below[n]
  BY VisitIs
<1>2. n \in Nat
  BY FS_CardinalityType DEF IsMap
<1>3. below \in [0 .. n -> Visitors(map)] /\ \A depth \in 0 .. n : below[depth] = Level(map, below[depth - 1], depth)
  BY <1>1 DEF Levels
<1> HIDE DEF n
<1> DEFINE Right == {depth \in 0 .. n : Sound(map, below[depth])}
<1>4. 0 \in Right
  BY <1>2, <1>3, LevelIsSound
<1>5. ASSUME NEW depth \in 1 .. n, depth - 1 \in Right PROVE depth \in Right
  <2>1. below[depth - 1] \in Visitors(map) /\ below[depth] = Level(map, below[depth - 1], depth)
    BY <1>2, <1>3
  <2>2. Sound(map, below[depth - 1]) /\ depth \in Nat /\ depth \in 0 .. n
    BY <1>2, <1>5
  <2> QED BY <2>1, <2>2, LevelIsSound
<1>6. n \in Right
  <2> HIDE DEF Right
  <2>1. \A depth \in 0 .. n : depth \in Right
    BY <1>2, <1>4, <1>5, CountsUp
  <2> QED BY <1>2, <2>1
<1> QED BY <1>1, <1>6

LEMMA VisitCompletes ==
  ASSUME NEW map, IsMap(map), NEW rank, Ranks(map, rank), \A name \in DOMAIN map : rank[name] # 0
  PROVE  Completes(map, D!visit(map), rank, Cardinality(DOMAIN map))
<1> DEFINE n == Cardinality(DOMAIN map)
<1>1. PICK below : Levels(map, below) /\ D!visit(map) = below[n]
  BY VisitIs
<1>2. n \in Nat
  BY FS_CardinalityType DEF IsMap
<1>3. below \in [0 .. n -> Visitors(map)] /\ \A depth \in 0 .. n : below[depth] = Level(map, below[depth - 1], depth)
  BY <1>1 DEF Levels
<1> HIDE DEF n
<1> DEFINE Right == {depth \in 0 .. n : Sound(map, below[depth]) /\ Completes(map, below[depth], rank, depth)}
<1>4. 0 \in Right
  <2>1. below[0] = Level(map, below[0 - 1], 0)
    BY <1>2, <1>3
  <2> QED BY <1>2, <2>1, LevelIsSound, LevelCompletes
<1>5. ASSUME NEW depth \in 1 .. n, depth - 1 \in Right PROVE depth \in Right
  <2>1. below[depth - 1] \in Visitors(map) /\ below[depth] = Level(map, below[depth - 1], depth)
    BY <1>2, <1>3
  <2>2. /\ Sound(map, below[depth - 1]) /\ Completes(map, below[depth - 1], rank, depth - 1)
        /\ depth \in Nat /\ depth \in 0 .. n
    BY <1>2, <1>5
  <2> QED BY <2>1, <2>2, LevelIsSound, LevelCompletes
<1>6. n \in Right
  <2> HIDE DEF Right
  <2>1. \A depth \in 0 .. n : depth \in Right
    BY <1>2, <1>4, <1>5, CountsUp
  <2> QED BY <1>2, <2>1
<1> QED BY <1>1, <1>6 DEF n

\* An order of all names, each after those it depends on.
IsOrder(map, order) ==
  LET n == Len(order) IN
  /\ order \in Seq(DOMAIN map) /\ n = Cardinality(DOMAIN map)
  /\ \A name \in DOMAIN map : \E i \in 1 .. n : order[i] = name
  /\ \A i, j \in 1 .. n : order[i] = order[j] => i = j
  /\ \A i \in 1 .. n : \A dep \in Dependencies(map, order[i]) : \E j \in 1 .. i - 1 : order[j] = dep

LEMMA SequenceOf ==
  ASSUME NEW N, NEW M, NEW s \in Seq(N), \A i \in 1 .. Len(s) : s[i] \in M
  PROVE  s \in Seq(M)
<1>1. s = [i \in 1 .. Len(s) |-> s[i]] /\ Len(s) \in Nat
  OBVIOUS
<1>2. s \in [1 .. Len(s) -> M]
  BY <1>1
<1> QED BY <1>1, <1>2

\* Whatever order Go visits the map in, an order is found exactly if there is one.
LEMMA OrderIsFound ==
  ASSUME NEW map, IsMap(map), NEW keys \in Seq(DOMAIN map),
         \A name \in DOMAIN map : \E i \in 1 .. Len(keys) : keys[i] = name
  PROVE  LET search == D!resolveDependencies(map, keys) IN
         /\ ~search.failed => IsOrder(map, search.order)
         /\ \A rank : Ranks(map, rank) /\ (\A name \in DOMAIN map : rank[name] \in 1 .. Cardinality(DOMAIN map)) =>
              ~search.failed
<1> DEFINE search == D!resolveDependencies(map, keys)
           N == D!NamesIn(map)
           n == Len(search.order)
<1>1. Sound(map, D!visit(map))
  BY VisitIsSound
<1>2. Good(map, D!Unvisited)
  <2>1. D!Unvisited \in D!Searches(map)
    BY DEF D!Unvisited, D!Searches
  <2> QED BY <2>1 DEF D!Unvisited, Good
<1>3. keys \in Seq(N)
  BY DEF D!NamesIn
<1>4. Leads(map, D!Unvisited, search, {keys[i] : i \in 1 .. Len(keys)})
  BY <1>1, <1>2, <1>3, LoopIsSound DEF D!resolveDependencies
<1>5. ASSUME ~search.failed PROVE IsOrder(map, search.order)
  <2>1. Good(map, search) /\ \A name \in DOMAIN map : name \in search.visited
    BY <1>4, <1>5 DEF Leads
  <2> HIDE DEF search
  <2>2. search.order \in Seq(N)
    BY <2>1 DEF Good, D!Searches
  <2>3. n \in Nat /\ \A i \in 1 .. n : search.order[i] \in DOMAIN map
    <3>1. \A i \in 1 .. n : search.order[i] \in search.visited
      BY <2>1 DEF Good
    <3> QED BY <2>1, <2>2, <3>1 DEF Good
  <2>4. search.order \in Seq(DOMAIN map)
    <3> HIDE DEF N
    <3> QED BY <2>2, <2>3, SequenceOf
  <2>5. \A name \in DOMAIN map : \E i \in 1 .. n : search.order[i] = name
    BY <2>1 DEF Good
  <2>6. \A i, j \in 1 .. n : search.order[i] = search.order[j] => i = j
    BY <2>1 DEF Good
  <2>7. Cardinality(DOMAIN map) = n
    <3> DEFINE f == [i \in 1 .. n |-> search.order[i]]
    <3>1. f \in Bijection(1 .. n, DOMAIN map)
      BY <2>3, <2>5, <2>6 DEF Bijection, Injection, Surjection, IsInjective
    <3>2. IsFiniteSet(1 .. n) /\ Cardinality(1 .. n) = n
      <4> HIDE DEF n
      <4>1. IsFiniteSet(1 .. n) /\ Cardinality(1 .. n) = IF 1 > n THEN 0 ELSE n - 1 + 1
        BY <2>3, FS_Interval
      <4> QED BY <2>3, <4>1
    <3>3. ExistsBijection(1 .. n, DOMAIN map)
      <4> HIDE DEF f
      <4> QED BY <3>1 DEF ExistsBijection
    <3> QED BY <3>2, <3>3, FS_Bijection
  <2> QED BY <2>1, <2>4, <2>5, <2>6, <2>7 DEF IsOrder, Good
<1>6. ASSUME NEW rank, Ranks(map, rank), \A name \in DOMAIN map : rank[name] \in 1 .. Cardinality(DOMAIN map)
      PROVE  ~search.failed
  <2>1. Cardinality(DOMAIN map) \in Nat
    BY FS_CardinalityType DEF IsMap
  <2>2. Completes(map, D!visit(map), rank, Cardinality(DOMAIN map))
    BY <1>6, <2>1, VisitCompletes
  <2>3. \A i \in 1 .. Len(keys) :
          /\ keys[i] \in DOMAIN map /\ rank[keys[i]] <= Cardinality(DOMAIN map)
          /\ Below(rank, D!Unvisited, keys[i])
    BY <1>6, <2>1 DEF Below, D!Unvisited
  <2> QED BY <1>1, <1>2, <1>3, <2>2, <2>3, LoopCompletes DEF D!resolveDependencies
<1> QED BY <1>5, <1>6

LEMMA DependenciesAre ==
  ASSUME NEW map, IsMap(map), NEW name \in DOMAIN map
  PROVE  D!DependenciesIn(map, name) = Dependencies(map, name)
<1>1. DOMAIN map[name].dependsOn = 1 .. Len(map[name].dependsOn)
  BY DEF IsMap
<1> QED BY <1>1 DEF D!DependenciesIn, D!ToSet, Dependencies

LEMMA ExecutableIfOrder ==
  ASSUME NEW map, IsMap(map), NEW order, IsOrder(map, order)
  PROVE  D!Executable(map)
<1> DEFINE n == Len(order)
           Place(name) == CHOOSE i \in 1 .. n : order[i] = name
           rank == [name \in DOMAIN map |-> Place(name)]
<1>1. n = Cardinality(DOMAIN map) /\ n = D!Cardinality(DOMAIN map) /\ n \in Nat
  BY SameCardinality DEF IsOrder
<1>2. \A name \in DOMAIN map : rank[name] \in 1 .. n /\ order[rank[name]] = name
  BY DEF IsOrder
<1>3. rank \in [DOMAIN map -> 1 .. n]
  BY <1>2
<1> HIDE DEF rank
<1>4. ASSUME NEW name \in DOMAIN map, NEW dep \in Dependencies(map, name)
      PROVE  dep \in DOMAIN map /\ rank[dep] < rank[name]
  <2>1. PICK j \in 1 .. rank[name] - 1 : order[j] = dep
    BY <1>2, <1>4 DEF IsOrder
  <2>2. j \in 1 .. n /\ j < rank[name]
    BY <1>1, <1>2, <2>1
  <2>3. dep \in DOMAIN map
    BY <2>1, <2>2 DEF IsOrder
  <2>4. rank[dep] = j
    BY <1>2, <2>1, <2>2, <2>3 DEF IsOrder
  <2> QED BY <2>2, <2>3, <2>4
<1> HIDE DEF n
<1>5. \A name \in DOMAIN map : D!DependenciesIn(map, name) = Dependencies(map, name)
  BY DependenciesAre
<1>6. rank \in [DOMAIN map -> 1 .. D!Cardinality(DOMAIN map)]
  BY <1>1, <1>3
<1> QED BY <1>4, <1>5, <1>6 DEF D!Executable

LEMMA RanksIfExecutable ==
  ASSUME NEW map, IsMap(map), D!Executable(map)
  PROVE  \E rank : Ranks(map, rank) /\ \A name \in DOMAIN map : rank[name] \in 1 .. Cardinality(DOMAIN map)
<1>1. PICK rank \in [DOMAIN map -> 1 .. D!Cardinality(DOMAIN map)] :
        \A name \in DOMAIN map : \A dep \in D!DependenciesIn(map, name) : rank[dep] < rank[name]
  BY DEF D!Executable
<1>2. D!Cardinality(DOMAIN map) = Cardinality(DOMAIN map) /\ Cardinality(DOMAIN map) \in Nat
  BY SameCardinality, FS_CardinalityType DEF IsMap
<1>3. \A name \in DOMAIN map : rank[name] \in 1 .. Cardinality(DOMAIN map)
  BY <1>1, <1>2
<1>4. rank \in [DOMAIN map -> Nat]
  BY <1>1, <1>2
<1>5. \A name \in DOMAIN map : Dependencies(map, name) \subseteq DOMAIN map
  BY DependenciesAre DEF D!Executable
<1>6. Ranks(map, rank)
  BY <1>1, <1>4, <1>5, DependenciesAre DEF Ranks
<1> QED BY <1>3, <1>6

\* The orders that Go may visit the map in.
LEMMA KeysAreAll ==
  ASSUME NEW map, IsMap(map), NEW keys \in D!SetToSeqs(DOMAIN map)
  PROVE  keys \in Seq(DOMAIN map) /\ \A name \in DOMAIN map : \E i \in 1 .. Len(keys) : keys[i] = name
<1> DEFINE S == DOMAIN map
           n == Cardinality(S)
<1>1. n \in Nat /\ D!Cardinality(S) = n
  BY FS_CardinalityType, SameCardinality DEF IsMap
<1>2. keys \in [1 .. n -> S] /\ \A i, j \in 1 .. n : i # j => keys[i] # keys[j]
  BY <1>1 DEF D!SetToSeqs
<1>3. keys \in Seq(S) /\ Len(keys) = n
  <2> HIDE DEF n, S
  <2> QED BY <1>1, <1>2
<1>4. IsFiniteSet(1 .. n) /\ Cardinality(1 .. n) = n
  <2> HIDE DEF n
  <2>1. IsFiniteSet(1 .. n) /\ Cardinality(1 .. n) = IF 1 > n THEN 0 ELSE n - 1 + 1
    BY <1>1, FS_Interval
  <2> QED BY <1>1, <2>1
<1>5. keys \in Injection(1 .. n, S)
  BY <1>2 DEF Injection, IsInjective
<1>6. keys \in Surjection(1 .. n, S)
  <2> HIDE DEF n, S
  <2> QED BY <1>4, <1>5, FS_Injection DEF IsMap, n, S
<1> QED BY <1>3, <1>6 DEF Surjection

LEMMA Greatest ==
  ASSUME NEW n \in Nat, NEW S \in SUBSET (1 .. n), S # {}
  PROVE  \E m \in S : \A k \in S : m >= k
<1> DEFINE T == {n - k : k \in S}
<1>1. T \in SUBSET Nat /\ T # {}
  <2>1. \A k \in S : n - k \in Nat
    OBVIOUS
  <2> QED BY <2>1
<1>2. PICK t \in T : \A u \in T : t <= u
  <2> HIDE DEF T
  <2> QED BY <1>1, NatLeast
<1>3. PICK m \in S : t = n - m
  OBVIOUS
<1>4. ASSUME NEW k \in S PROVE m >= k
  <2>1. n - m <= n - k
    BY <1>2, <1>3
  <2> QED BY <2>1
<1> QED BY <1>4

\* An API, as far as the selectors read it.
IsAPI(api) ==
  /\ api = [field \in DOMAIN api |-> api[field]] /\ {"name", "dependsOn", "weight", "extractors"} \subseteq DOMAIN api
  /\ api.dependsOn \in Seq(STRING) /\ api.weight \in Int

LEMMA NamedIs ==
  ASSUME NEW APIs, \A api \in APIs : IsAPI(api), NEW apis \in Seq(APIs)
  PROVE  /\ D!Named(apis) = [i \in 1 .. Len(apis) |-> D!Named(apis)[i]]
         /\ \A i \in 1 .. Len(apis) : D!Named(apis)[i].dependsOn = apis[i].dependsOn
<1>1. DOMAIN apis = 1 .. Len(apis) /\ \A i \in 1 .. Len(apis) : IsAPI(apis[i])
  OBVIOUS
<1>2. \A api, x : IsAPI(api) => [api EXCEPT !.name = x].dependsOn = api.dependsOn
  BY DEF IsAPI
<1>3. ASSUME NEW i \in 1 .. Len(apis) PROVE D!Named(apis)[i].dependsOn = apis[i].dependsOn
  <2>1. D!Named(apis)[i] = apis[i] \/ \E x : D!Named(apis)[i] = [apis[i] EXCEPT !.name = x]
    BY <1>1, Zenon DEF D!Named
  <2> QED BY <1>1, <1>2, <2>1
<1>4. D!Named(apis) = [i \in 1 .. Len(apis) |-> D!Named(apis)[i]]
  BY <1>1 DEF D!Named
<1> QED BY <1>3, <1>4

LEMMA MapIs ==
  ASSUME NEW APIs, \A api \in APIs : IsAPI(api), NEW apis \in Seq(APIs)
  PROVE  IsMap(D!apiMap(apis))
<1> DEFINE named == D!Named(apis)
           n == Len(apis)
           S == {named[i].name : i \in 1 .. n}
           Of(name) == {i \in 1 .. n : named[i].name = name}
           map == D!apiMap(apis)
<1>1. n \in Nat /\ DOMAIN named = 1 .. n /\ \A i \in 1 .. n : named[i].dependsOn \in Seq(STRING)
  <2>1. \A i \in 1 .. n : apis[i].dependsOn \in Seq(STRING)
    BY DEF IsAPI
  <2> QED BY <2>1, NamedIs
<1>2. map = [name \in S |-> named[D!Max(Of(name))]]
  BY <1>1 DEF D!apiMap
<1> HIDE DEF map, named
<1>3. ASSUME NEW name \in S PROVE D!Max(Of(name)) \in 1 .. n
  <2>1. Of(name) \in SUBSET (1 .. n) /\ Of(name) # {}
    BY <1>3
  <2> HIDE DEF Of
  <2>2. D!Max(Of(name)) \in Of(name)
    BY <1>1, <2>1, Greatest DEF D!Max
  <2> QED BY <2>1, <2>2
<1>4. IsFiniteSet(S)
  <2> DEFINE f == [i \in 1 .. n |-> named[i].name]
  <2>1. f \in Surjection(1 .. n, S)
    BY DEF Surjection
  <2>2. IsFiniteSet(1 .. n)
    BY <1>1, FS_Interval
  <2> HIDE DEF f, S
  <2> QED BY <2>1, <2>2, FS_Surjection
<1>5. DOMAIN map = S
  BY <1>2
<1>6. ASSUME NEW name \in DOMAIN map PROVE map[name].dependsOn \in Seq(D!NamesIn(map))
  <2>1. map[name] = named[D!Max(Of(name))] /\ D!Max(Of(name)) \in 1 .. n
    BY <1>2, <1>3, <1>5
  <2> HIDE DEF Of, S
  <2>2. map[name].dependsOn \in Seq(STRING)
    BY <1>1, <2>1
  <2>3. \A i \in 1 .. Len(map[name].dependsOn) : map[name].dependsOn[i] \in D!DependenciesIn(map, name)
    BY <2>2 DEF D!DependenciesIn, D!ToSet
  <2>4. D!DependenciesIn(map, name) \subseteq D!NamesIn(map)
    BY DEF D!NamesIn
  <2>5. \A i \in 1 .. Len(map[name].dependsOn) : map[name].dependsOn[i] \in D!NamesIn(map)
    BY <2>3, <2>4
  <2> QED BY <2>2, <2>5, SequenceOf
<1> QED BY <1>4, <1>5, <1>6 DEF IsMap, map

-----------------------------------------------------------------------------
(* The selectors.                                                          *)

LEMMA WeightsAre ==
  ASSUME NEW APIs, \A api \in APIs : IsAPI(api), NEW apis \in Seq(APIs)
  PROVE  \E sum \in [0 .. Len(apis) -> Nat] :
           /\ sum[0] = 0
           /\ \A i \in 1 .. Len(apis) : sum[i] = sum[i - 1] + D!WeightOf(apis[i]) /\ D!WeightOf(apis[i]) \in Nat \ {0}
           /\ \A i \in 0 .. Len(apis) : D!WeightsUpTo(apis, i) = sum[i]
<1> DEFINE n == Len(apis)
           step == [i \in 1 .. n |-> [t \in Nat |-> t + D!WeightOf(apis[i])]]
           Rec(f) == [j \in 0 .. n |-> IF j = 0 THEN 0 ELSE f[j - 1] + D!WeightOf(apis[j])]
           sum == CHOOSE f : f = Rec(f)
<1>1. n \in Nat /\ \A i \in 1 .. n : D!WeightOf(apis[i]) \in Nat \ {0}
  <2>1. \A i \in 1 .. n : apis[i].weight \in Int
    BY DEF IsAPI
  <2> QED BY <2>1 DEF D!WeightOf
<1>2. \A i \in 1 .. n : \A t \in Nat : step[i][t] \in Nat /\ step[i][t] = t + D!WeightOf(apis[i])
  <2> HIDE DEF n
  <2> QED BY <1>1
<1>3. PICK g : Runs(g, n, Nat, 0, step)
  <2> HIDE DEF n, step
  <2> QED BY <1>1, <1>2, RunExists
<1>4. g = Rec(g)
  <2>1. \A i \in 1 .. n : g[i] = g[i - 1] + D!WeightOf(apis[i])
    <3> HIDE DEF n, step
    <3>1. \A i \in 1 .. n : g[i] = step[i][g[i - 1]] /\ g[i - 1] \in Nat
      BY <1>1, <1>3 DEF Runs
    <3> QED BY <1>2, <3>1
  <2> HIDE DEF n, step
  <2> QED BY <1>1, <1>3, <2>1 DEF Runs
<1>5. sum = Rec(sum)
  <2> HIDE DEF Rec
  <2> QED BY <1>4
<1>6. \A i : D!WeightsUpTo(apis, i) = sum[i]
  BY DEF D!WeightsUpTo
<1> HIDE DEF sum
<1>7. \A i \in 1 .. n : sum[i] = sum[i - 1] + D!WeightOf(apis[i])
  <2> HIDE DEF n
  <2> QED BY <1>1, <1>5
<1>8. Runs(sum, n, Nat, 0, step)
  <2>1. sum = [i \in 0 .. n |-> sum[i]] /\ sum[0] = 0
    <3> HIDE DEF n
    <3> QED BY <1>1, <1>5
  <2>2. \A i \in 1 .. n : sum[i - 1] \in Nat => sum[i] = step[i][sum[i - 1]]
    <3> HIDE DEF n, step
    <3> QED BY <1>2, <1>7
  <2> HIDE DEF n, step, Rec
  <2> QED BY <1>1, <1>2, <2>1, <2>2, RunIs
<1> QED BY <1>1, <1>6, <1>7, <1>8 DEF Runs

LEMMA SumsGrow ==
  ASSUME NEW n \in Nat, NEW sum \in [0 .. n -> Nat], \A i \in 1 .. n : sum[i - 1] < sum[i],
         NEW i \in 0 .. n, NEW j \in 0 .. n, i < j
  PROVE  sum[i] < sum[j]
<1> DEFINE Right == {k \in 0 .. n : i < k => sum[i] < sum[k]}
<1>1. 0 \in Right
  OBVIOUS
<1>2. ASSUME NEW k \in 1 .. n, k - 1 \in Right PROVE k \in Right
  <2>1. sum[k - 1] < sum[k] /\ sum[k - 1] \in Nat /\ sum[k] \in Nat /\ sum[i] \in Nat /\ k \in 0 .. n
    OBVIOUS
  <2>2. i < k => i = k - 1 \/ sum[i] < sum[k - 1]
    BY <1>2
  <2>3. i < k => sum[i] < sum[k]
    BY <2>1, <2>2
  <2> QED BY <2>1, <2>3
<1>3. \A k \in 0 .. n : k \in Right
  <2> HIDE DEF Right
  <2> QED BY <1>1, <1>2, CountsUp
<1> QED BY <1>3

\* An API is drawn as often as its weight says.
LEMMA DrawsAre ==
  ASSUME NEW APIs, \A api \in APIs : IsAPI(api), NEW apis \in Seq(APIs), NEW i \in 1 .. Len(apis)
  PROVE  D!Cardinality({n \in 0 .. D!TotalWeight(apis) - 1 : D!weighted(apis, n) = i}) = D!WeightOf(apis[i])
<1> DEFINE L == Len(apis)
<1>1. L \in Nat /\ DOMAIN apis = 1 .. L
  OBVIOUS
<1>2. PICK sum \in [0 .. L -> Nat] :
           /\ sum[0] = 0
           /\ \A k \in 1 .. L : sum[k] = sum[k - 1] + D!WeightOf(apis[k]) /\ D!WeightOf(apis[k]) \in Nat \ {0}
           /\ \A k \in 0 .. L : D!WeightsUpTo(apis, k) = sum[k]
  BY WeightsAre
<1> HIDE DEF L
<1>3. i \in 1 .. L
  BY DEF L
<1>4. D!TotalWeight(apis) = sum[L] /\ sum[L] \in Nat
  BY <1>1, <1>2 DEF D!TotalWeight, L
<1>5. ASSUME NEW k \in 1 .. L PROVE sum[k - 1] < sum[k] /\ sum[k] \in Nat /\ sum[k - 1] \in Nat
  <2>1. k \in 0 .. L /\ k - 1 \in 0 .. L
    BY <1>1
  <2>2. sum[k] = sum[k - 1] + D!WeightOf(apis[k]) /\ D!WeightOf(apis[k]) \in Nat \ {0}
    BY <1>2
  <2>3. sum[k] \in Nat /\ sum[k - 1] \in Nat
    BY <2>1
  <2> QED BY <2>2, <2>3
<1>6. ASSUME NEW j \in 0 .. L, NEW k \in 0 .. L, j < k PROVE sum[j] < sum[k]
  BY <1>1, <1>5, <1>6, SumsGrow
<1>7. ASSUME NEW n \in 0 .. sum[L] - 1
      PROVE  D!weighted(apis, n) = i <=> n \in sum[i - 1] .. sum[i] - 1
  <2> DEFINE S == {k \in 1 .. L : n < sum[k]}
  <2>1. D!weighted(apis, n) = D!Min(S)
    <3>1. {k \in DOMAIN apis : n < D!WeightsUpTo(apis, k)} = S
      <4>1. \A k \in 1 .. L : D!WeightsUpTo(apis, k) = sum[k]
        BY <1>1, <1>2
      <4> QED BY <1>1, <4>1
    <3> HIDE DEF S
    <3> QED BY <3>1 DEF D!weighted
  <2>2. S \in SUBSET Nat /\ L \in S
    BY <1>1, <1>3, <1>4, <1>7
  <2> HIDE DEF S
  <2>3. D!Min(S) \in S /\ \A k \in S : D!Min(S) <= k
    BY <2>2, NatLeast DEF D!Min
  <2>4. ASSUME D!Min(S) = i PROVE n \in sum[i - 1] .. sum[i] - 1
    <3>1. n < sum[i]
      BY <2>3, <2>4 DEF S
    <3>2. i - 1 \notin S
      BY <1>3, <2>3, <2>4
    <3>3. sum[i - 1] <= n
      <4>1. CASE i = 1
        BY <1>2, <1>4, <1>7, <4>1
      <4>2. CASE i - 1 \in 1 .. L
        BY <1>3, <1>4, <1>5, <1>7, <3>2, <4>2 DEF S
      <4> QED BY <1>1, <1>3, <4>1, <4>2
    <3> QED BY <1>3, <1>4, <1>5, <1>7, <3>1, <3>3
  <2>5. ASSUME n \in sum[i - 1] .. sum[i] - 1 PROVE D!Min(S) = i
    <3>1. i \in S
      BY <1>3, <1>4, <1>5, <1>7, <2>5 DEF S
    <3>2. ASSUME NEW k \in S, k < i PROVE FALSE
      <4>1. k \in 1 .. L /\ n < sum[k] /\ sum[k] \in Nat
        BY <1>5 DEF S
      <4>2. sum[k] <= sum[i - 1]
        <5>1. CASE k = i - 1
          BY <1>5, <4>1, <5>1
        <5>2. CASE k < i - 1
          <6>1. i - 1 \in 0 .. L /\ k \in 0 .. L
            BY <1>1, <1>3, <4>1
          <6> QED BY <1>3, <1>5, <1>6, <4>1, <5>2, <6>1
        <5> QED BY <1>3, <3>2, <4>1, <5>1, <5>2
      <4> QED BY <1>3, <1>4, <1>5, <1>7, <2>5, <4>1, <4>2
    <3>3. D!Min(S) \in Nat /\ D!Min(S) <= i /\ ~(D!Min(S) < i)
      BY <2>2, <2>3, <3>1, <3>2
    <3> QED BY <1>3, <3>3
  <2> QED BY <2>1, <2>4, <2>5
<1>8. sum[i] <= sum[L]
  <2>1. CASE i = L
    BY <1>4, <2>1
  <2>2. CASE i < L
    BY <1>1, <1>3, <1>4, <1>5, <1>6, <2>2
  <2> QED BY <1>1, <1>3, <2>1, <2>2
<1>9. {n \in 0 .. sum[L] - 1 : D!weighted(apis, n) = i} = sum[i - 1] .. sum[i] - 1
  <2>1. sum[i - 1] .. sum[i] - 1 \subseteq 0 .. sum[L] - 1
    BY <1>3, <1>4, <1>5, <1>8
  <2> QED BY <1>7, <2>1
<1>10. Cardinality(sum[i - 1] .. sum[i] - 1) = D!WeightOf(apis[i])
  <2>1. /\ sum[i - 1] \in Int /\ sum[i] - 1 \in Int /\ sum[i - 1] <= sum[i] - 1
        /\ (sum[i] - 1) - sum[i - 1] + 1 = D!WeightOf(apis[i])
    BY <1>2, <1>3, <1>5
  <2>2. Cardinality(sum[i - 1] .. sum[i] - 1)
          = IF sum[i - 1] > sum[i] - 1 THEN 0 ELSE (sum[i] - 1) - sum[i - 1] + 1
    BY <2>1, FS_Interval
  <2> QED BY <2>1, <2>2
<1> QED BY <1>4, <1>9, <1>10, SameCardinality

\* The APIs in turn, and the names of an order in turn, are all called.
LEMMA TurnsAre ==
  ASSUME NEW T, NEW s \in Seq(T)
  PROVE  /\ \A i \in 1 .. Len(s) : \E n \in 0 .. Len(s) - 1 : D!roundRobin(s, n) = s[i]
         /\ {D!dependencyNext(s, n) : n \in 1 .. Len(s)} = {s[i] : i \in 1 .. Len(s)}
<1> DEFINE L == Len(s)
<1>1. L \in Nat
  OBVIOUS
<1> HIDE DEF L
<1>2. \A n \in 0 .. L - 1 : n % L = n
  BY <1>1
<1>3. ASSUME NEW i \in 1 .. L PROVE \E n \in 0 .. L - 1 : (n % L) + 1 = i
  <2>1. i - 1 \in 0 .. L - 1
    BY <1>1
  <2>2. ((i - 1) % L) + 1 = i
    BY <1>1, <1>2, <2>1
  <2> QED BY <2>1, <2>2
<1>4. ASSUME NEW i \in 1 .. L PROVE \E n \in 1 .. L : (n % L) + 1 = i
  <2>1. CASE i = 1
    <3>1. L % L = 0 /\ L \in 1 .. L
      BY <1>1
    <3> QED BY <2>1, <3>1
  <2>2. CASE i # 1
    <3>1. i - 1 \in 1 .. L /\ i - 1 \in 0 .. L - 1
      BY <1>1, <2>2
    <3>2. ((i - 1) % L) + 1 = i
      BY <1>1, <1>2, <3>1
    <3> QED BY <3>1, <3>2
  <2> QED BY <2>1, <2>2
<1>5. \A n \in 1 .. L : (n % L) + 1 \in 1 .. L
  BY <1>1
<1>6. \A n : D!roundRobin(s, n) = s[(n % L) + 1] /\ D!dependencyNext(s, n) = s[(n % L) + 1]
  BY DEF D!roundRobin, D!dependencyNext, L
<1>7. \A i \in 1 .. L : \E n \in 0 .. L - 1 : D!roundRobin(s, n) = s[i]
  BY <1>3, <1>6
<1>8. {D!dependencyNext(s, n) : n \in 1 .. L} = {s[i] : i \in 1 .. L}
  <2>1. \A n \in 1 .. L : D!dependencyNext(s, n) \in {s[i] : i \in 1 .. L}
    BY <1>5, <1>6
  <2>2. \A i \in 1 .. L : \E n \in 1 .. L : s[i] = D!dependencyNext(s, n)
    BY <1>4, <1>6
  <2> QED BY <2>1, <2>2
<1> QED BY <1>7, <1>8 DEF L

LEMMA SelectorIs ==
  ASSUME NEW APIs, \A api \in APIs : IsAPI(api), NEW apis \in Seq(APIs), apis # << >>,
         NEW keys \in D!SetToSeqs(DOMAIN D!apiMap(apis))
  PROVE  LET map == D!apiMap(apis)
             selector == D!CreateAPISelector(apis, keys) IN
         IF D!Chained(apis) /\ D!Executable(map)
         THEN selector.mode = "dependency" /\ selector.apis = map /\ IsOrder(map, selector.order)
         ELSE selector.mode # "dependency"
<1> DEFINE map == D!apiMap(apis)
           selector == D!CreateAPISelector(apis, keys)
           search == D!resolveDependencies(map, keys)
<1>1. IsMap(map)
  BY MapIs
<1>2. selector = IF D!Chained(apis) /\ ~search.failed
                 THEN [mode |-> "dependency", apis |-> map, order |-> search.order]
                 ELSE IF ~D!Chained(apis) /\ \E i \in DOMAIN apis : apis[i].weight > 1
                 THEN [mode |-> "weighted", apis |-> apis, order |-> << >>]
                 ELSE [mode |-> "roundRobin",
                       apis |-> IF D!Chained(apis) THEN D!Named(apis) ELSE apis, order |-> << >>]
  BY Zenon DEF D!CreateAPISelector
<1> HIDE DEF map, selector
<1>3. /\ ~search.failed => IsOrder(map, search.order)
      /\ \A rank : Ranks(map, rank) /\ (\A name \in DOMAIN map : rank[name] \in 1 .. Cardinality(DOMAIN map)) =>
           ~search.failed
  <2>1. keys \in Seq(DOMAIN map) /\ \A name \in DOMAIN map : \E i \in 1 .. Len(keys) : keys[i] = name
    BY <1>1, KeysAreAll DEF map
  <2> QED BY <1>1, <2>1, OrderIsFound
<1> HIDE DEF search
<1>4. ~search.failed <=> D!Executable(map)
  BY <1>1, <1>3, ExecutableIfOrder, RanksIfExecutable
<1> HIDE DEF IsOrder
<1>5. IF D!Chained(apis) /\ D!Executable(map)
      THEN selector.mode = "dependency" /\ selector.apis = map /\ IsOrder(map, selector.order)
      ELSE selector.mode # "dependency"
  BY <1>2, <1>3, <1>4
<1> QED BY <1>5 DEF map, selector

LEMMA DefaultIsNotChained ==
  \A keys : D!CreateAPISelector(<< >>, keys).mode # "dependency"
<1> TAKE keys
<1>1. ~D!Chained(<<D!DefaultAPI>>)
  BY DEF D!Chained, D!DefaultAPI
<1>2. D!CreateAPISelector(<< >>, keys).mode \in {"weighted", "roundRobin"}
  BY <1>1 DEF D!CreateAPISelector
<1> QED BY <1>2

\* Every name is called, after all it depends on.
IsPlaced(map, order) ==
  /\ Len(order) = D!Cardinality(DOMAIN map) /\ D!ToSet(order) = DOMAIN map
  /\ \A name \in DOMAIN map : \A dep \in D!DependenciesIn(map, name) :
       (CHOOSE i \in DOMAIN order : order[i] = dep) < (CHOOSE i \in DOMAIN order : order[i] = name)
  /\ {D!dependencyNext(order, n) : n \in 1 .. Len(order)} = DOMAIN map

LEMMA PlacesAre ==
  ASSUME NEW map, IsMap(map), NEW order, IsOrder(map, order)
  PROVE  IsPlaced(map, order)
<1> DEFINE n == Len(order)
           Place(name) == CHOOSE i \in DOMAIN order : order[i] = name
<1>1. order \in Seq(DOMAIN map) /\ n = D!Cardinality(DOMAIN map) /\ n \in Nat /\ DOMAIN order = 1 .. n
  BY SameCardinality DEF IsOrder
<1>2. {order[i] : i \in 1 .. n} = DOMAIN map
  <2>1. \A i \in 1 .. n : order[i] \in DOMAIN map
    BY <1>1
  <2>2. \A name \in DOMAIN map : \E i \in 1 .. n : order[i] = name
    BY DEF IsOrder
  <2> QED BY <2>1, <2>2
<1>3. {D!dependencyNext(order, k) : k \in 1 .. n} = DOMAIN map
  BY <1>1, <1>2, TurnsAre
<1>4. D!ToSet(order) = DOMAIN map
  BY <1>1, <1>2 DEF D!ToSet
<1>5. \A name \in DOMAIN map : Place(name) \in 1 .. n /\ order[Place(name)] = name
  BY <1>1 DEF IsOrder
<1>6. ASSUME NEW name \in DOMAIN map, NEW dep \in D!DependenciesIn(map, name) PROVE Place(dep) < Place(name)
  <2>1. dep \in Dependencies(map, name)
    BY <1>6, DependenciesAre
  <2>2. PICK j \in 1 .. Place(name) - 1 : order[j] = dep
    BY <1>5, <2>1 DEF IsOrder
  <2>3. j \in 1 .. n /\ j < Place(name)
    BY <1>1, <1>5, <2>2
  <2>4. dep \in DOMAIN map
    BY <2>2, <2>3 DEF IsOrder
  <2>5. Place(dep) = j
    BY <1>5, <2>2, <2>3, <2>4 DEF IsOrder
  <2> QED BY <2>3, <2>5
<1> QED BY <1>1, <1>3, <1>4, <1>6 DEF IsPlaced

LEMMA OrdersAreFound ==
  ASSUME NEW APIs, \A api \in APIs : IsAPI(api), Lists \subseteq Seq(APIs)
  PROVE  AllSelectSoundly
<1> SUFFICES ASSUME NEW apis \in Lists
    PROVE  LET map == D!apiMap(apis) IN
           /\ \A keys \in D!SetToSeqs(DOMAIN map) :
                LET selector == D!CreateAPISelector(apis, keys)
                    Place(name) == CHOOSE i \in DOMAIN selector.order : selector.order[i] = name
                IN IF apis # << >> /\ D!Chained(apis) /\ D!Executable(map)
                   THEN /\ selector.mode = "dependency"
                        /\ Len(selector.order) = D!Cardinality(DOMAIN map)
                        /\ D!ToSet(selector.order) = DOMAIN map
                        /\ \A name \in DOMAIN map : \A dep \in D!DependenciesIn(map, name) : Place(dep) < Place(name)
                        /\ {D!dependencyNext(selector.order, n) : n \in 1 .. Len(selector.order)} = DOMAIN map
                   ELSE selector.mode # "dependency"
           /\ apis # << >> => \A i \in DOMAIN apis :
                /\ D!Cardinality({n \in 0 .. D!TotalWeight(apis) - 1 : D!weighted(apis, n) = i}) = D!WeightOf(apis[i])
                /\ \E n \in 0 .. Len(apis) - 1 : D!roundRobin(apis, n) = apis[i]
  BY Zenon DEF D!SelectsSoundly, AllSelectSoundly
<1> DEFINE map == D!apiMap(apis)
<1>1. apis \in Seq(APIs) /\ DOMAIN apis = 1 .. Len(apis)
  OBVIOUS
<1>2. IsMap(map)
  BY <1>1, MapIs
<1>3. ASSUME NEW keys \in D!SetToSeqs(DOMAIN map), NEW selector, selector = D!CreateAPISelector(apis, keys)
      PROVE  IF apis # << >> /\ D!Chained(apis) /\ D!Executable(map)
             THEN /\ selector.mode = "dependency"
                  /\ Len(selector.order) = D!Cardinality(DOMAIN map)
                  /\ D!ToSet(selector.order) = DOMAIN map
                  /\ \A name \in DOMAIN map : \A dep \in D!DependenciesIn(map, name) :
                       (CHOOSE i \in DOMAIN selector.order : selector.order[i] = dep)
                         < (CHOOSE i \in DOMAIN selector.order : selector.order[i] = name)
                  /\ {D!dependencyNext(selector.order, n) : n \in 1 .. Len(selector.order)} = DOMAIN map
             ELSE selector.mode # "dependency"
  <2>1. CASE apis = << >>
    BY <1>3, <2>1, DefaultIsNotChained
  <2>2. CASE apis # << >> /\ D!Chained(apis) /\ D!Executable(map)
    <3>1. selector.mode = "dependency" /\ IsOrder(map, selector.order)
      BY <1>1, <1>3, <2>2, SelectorIs
    <3> HIDE DEF map
    <3>2. IsPlaced(map, selector.order)
      BY <1>2, <3>1, PlacesAre
    <3> QED BY <2>2, <3>1, <3>2 DEF IsPlaced
  <2>3. CASE apis # << >> /\ ~(D!Chained(apis) /\ D!Executable(map))
    BY <1>1, <1>3, <2>3, SelectorIs
  <2> QED BY <2>1, <2>2, <2>3
<1>4. ASSUME NEW i \in DOMAIN apis
      PROVE  /\ D!Cardinality({n \in 0 .. D!TotalWeight(apis) - 1 : D!weighted(apis, n) = i}) = D!WeightOf(apis[i])
             /\ \E n \in 0 .. Len(apis) - 1 : D!roundRobin(apis, n) = apis[i]
  BY <1>1, DrawsAre, TurnsAre
<1> QED BY <1>3, <1>4

\* The configurations whose chains the resolver has put in order.
Resolved(APIs) ==
  \A c \in Configurations : c.selector.mode = "dependency" =>
    \E apis \in Seq(APIs) : \E keys \in D!SetToSeqs(DOMAIN D!apiMap(apis)) :
      LET selector == D!CreateAPISelector(apis, keys) IN
      /\ apis # << >> /\ selector.mode = "dependency"
      /\ c.selector.apis = selector.apis /\ c.selector.order = selector.order

LEMMA ResolvedIsOrdered ==
  ASSUME NEW APIs, \A api \in APIs : IsAPI(api), Resolved(APIs)
  PROVE  Ordered
<1> SUFFICES ASSUME NEW c \in Configurations, c.selector.mode = "dependency",
                    NEW i \in DOMAIN c.selector.order
             PROVE  /\ ToSet(c.selector.apis[c.selector.order[i]].dependsOn)
                          \subseteq {c.selector.order[j] : j \in 1 .. i - 1}
                    /\ \A j \in DOMAIN c.selector.order : c.selector.order[j] = c.selector.order[i] => j = i
  BY DEF Ordered
<1>1. PICK apis \in Seq(APIs) : \E keys \in D!SetToSeqs(DOMAIN D!apiMap(apis)) :
        /\ apis # << >> /\ D!CreateAPISelector(apis, keys).mode = "dependency"
        /\ c.selector.apis = D!CreateAPISelector(apis, keys).apis
        /\ c.selector.order = D!CreateAPISelector(apis, keys).order
  BY DEF Resolved
<1>2. PICK keys \in D!SetToSeqs(DOMAIN D!apiMap(apis)) :
        /\ apis # << >> /\ D!CreateAPISelector(apis, keys).mode = "dependency"
        /\ c.selector.apis = D!CreateAPISelector(apis, keys).apis
        /\ c.selector.order = D!CreateAPISelector(apis, keys).order
  BY <1>1
<1> DEFINE map == D!apiMap(apis)
           order == c.selector.order
<1>3. IsMap(map) /\ IsOrder(map, order) /\ c.selector.apis = map
  BY <1>2, MapIs, SelectorIs
<1> HIDE DEF map
<1>4. order \in Seq(DOMAIN map) /\ DOMAIN order = 1 .. Len(order)
  BY <1>3 DEF IsOrder
<1>5. order[i] \in DOMAIN map
  BY <1>4
<1>6. ToSet(map[order[i]].dependsOn) = Dependencies(map, order[i])
  <2>1. DOMAIN map[order[i]].dependsOn = 1 .. Len(map[order[i]].dependsOn)
    BY <1>3, <1>5 DEF IsMap
  <2> QED BY <2>1 DEF ToSet, Dependencies
<1>7. \A dep \in Dependencies(map, order[i]) : \E j \in 1 .. i - 1 : order[j] = dep
  BY <1>3, <1>4 DEF IsOrder
<1>8. \A j \in DOMAIN order : order[j] = order[i] => j = i
  BY <1>3, <1>4 DEF IsOrder
<1> QED BY <1>3, <1>6, <1>7, <1>8

\* For all lists of APIs, whatever their names, dependencies and weights, and in whatever order
\* Go visits the map of their names: an order of execution is found exactly if one exists and
\* names every API after all it depends on, and every API is called in turn or as often as its
\* weight says (executor/dependency.go, api_selector.go).
THEOREM OrdersAlwaysFound ==
  ASSUME NEW APIs, \A api \in APIs : IsAPI(api), Lists \subseteq Seq(APIs), Resolved(APIs)
  PROVE  Spec => []SelectsSoundly
<1>1. AllSelectSoundly /\ Ordered
  BY OrdersAreFound, ResolvedIsOrdered
<1>2. IInv => SelectsSoundly
  BY <1>1 DEF IInv, PlaceInv, SelectsSoundly
<1> QED BY <1>2, InitInv, InvStep, PTL DEF Spec

\* A request is not sent only for a cause (UnsentAlwaysHasCause) whenever the resolver has put
\* the APIs of the chain in order: nothing need be assumed about the order (dependency.go,
\* resolveDependencies; worker.go, shouldSkipAPI).
THEOREM ResolvedChainsHaveCause ==
  ASSUME NEW APIs, \A api \in APIs : IsAPI(api), Resolved(APIs)
  PROVE  Spec => []UnsentHasCause
<1>1. Ordered
  BY ResolvedIsOrdered
<1> QED BY <1>1, UnsentAlwaysHasCause, PTL
-----------------------------------------------------------------------------
(* Where values arrive, for texts whose values have one part.              *)

\* A value of one part, which is no placeholder.
OnePart(value) == value = <<value[1]>> /\ value[1] \notin Placeholders
OneParts(vs) == \A key \in DOMAIN vs : OnePart(vs[key])

\* An extractor that looks for a message's own data, and has a default of one part if any.  Its
\* transforms fail, or leave the data as it is.
ExactExtractor(cfg) ==
  /\ TypeOf(cfg) \in {"JSONPATH", "REGEX", "HEADER"} /\ cfg.path # "echo"
  /\ HasDefault(cfg) => OnePart(cfg.default)
  /\ \A data : Apply(<<data>>, cfg.transforms) \subseteq {<<data>>}

ExactList(extractors) ==
  /\ extractors \in Seq({extractors[i] : i \in DOMAIN extractors})
  /\ \A i \in DOMAIN extractors : ExactExtractor(extractors[i])

\* A placeholder names an API and a variable, the configuration's variables have one part, and
\* every API's extractors are exact.
Exact ==
  /\ \A p \in Placeholders : Len(p) = 2
  /\ \A p \in DOMAIN Settings : Settings[p] = <<Settings[p][1]>>
  /\ \A c \in Configurations : \A name \in DOMAIN c.selector.apis :
       LET api == c.selector.apis[name] IN
       /\ api.body \in Seq({api.body[i] : i \in DOMAIN api.body})
       /\ ExactList(api.extractors)

LEMMA FlattenOfOnes ==
  ASSUME NEW T, NEW p \in Seq(T), NEW seqs, seqs = [i \in 1 .. Len(p) |-> <<p[i]>>]
  PROVE  FlattenSeq(seqs) = p
<1> DEFINE n == Len(p)
           Upto(i) == [j \in 1 .. i |-> p[j]]
           Rec(f) == [i \in 1 .. n |-> IF i = 1 THEN seqs[i] ELSE f[i - 1] \o seqs[i]]
           flatten == CHOOSE f : f = Rec(f)
<1>1. n \in Nat /\ Len(seqs) = n /\ \A i \in 1 .. n : seqs[i] = <<p[i]>> /\ p[i] \in T
  OBVIOUS
<1>2. p = Upto(n)
  OBVIOUS
<1> HIDE DEF n
<1>3. ASSUME NEW i \in 1 .. n PROVE i = 1 => Upto(i) = seqs[i]
  BY <1>1, <1>3
<1>4. ASSUME NEW i \in 1 .. n, i # 1 PROVE Upto(i) = Upto(i - 1) \o seqs[i]
  <2>1. i - 1 \in Nat /\ Upto(i - 1) \in Seq(T) /\ Len(Upto(i - 1)) = i - 1
    BY <1>1, <1>4
  <2>2. seqs[i] = <<p[i]>> /\ <<p[i]>> \in Seq(T) /\ Len(<<p[i]>>) = 1
    BY <1>1
  <2>3. \A j \in 1 .. i - 1 : Upto(i - 1)[j] = p[j]
    BY <1>1
  <2>4. PICK a : a = Upto(i - 1)
    OBVIOUS
  <2>5. PICK b : b = <<p[i]>>
    OBVIOUS
  <2>6. a \in Seq(T) /\ b \in Seq(T) /\ Len(a) = i - 1 /\ Len(b) = 1 /\ i \in Nat
    BY <1>1, <2>1, <2>2, <2>4, <2>5
  <2>7. /\ a \o b \in Seq(T) /\ Len(a \o b) = Len(a) + Len(b)
        /\ \A j \in 1 .. Len(a) + Len(b) : (a \o b)[j] = IF j <= Len(a) THEN a[j] ELSE b[j - Len(a)]
    BY <2>6, ConcatProperties
  <2>8. Len(a) + Len(b) = i /\ \A j \in 1 .. i : j <= Len(a) <=> j \in 1 .. i - 1
    BY <2>6
  <2>9. ASSUME NEW j \in 1 .. i PROVE (a \o b)[j] = p[j]
    <3>1. CASE j \in 1 .. i - 1
      <4>1. (a \o b)[j] = a[j]
        BY <2>7, <2>8, <3>1
      <4> QED BY <2>3, <2>4, <3>1, <4>1
    <3>2. CASE j \notin 1 .. i - 1
      <4>1. j = i /\ j - Len(a) = 1
        BY <2>6, <3>2
      <4>2. (a \o b)[j] = b[1]
        BY <2>7, <2>8, <3>2, <4>1
      <4>3. b[1] = p[i]
        BY <2>5
      <4> QED BY <4>1, <4>2, <4>3
    <3> QED BY <3>1, <3>2
  <2>10. a \o b = [j \in 1 .. i |-> p[j]]
    <3> DEFINE ab == a \o b
    <3>1. ab \in Seq(T) /\ Len(ab) = i
      BY <2>7, <2>8
    <3>2. \A j \in 1 .. i : ab[j] = p[j]
      BY <2>9
    <3> HIDE DEF ab
    <3>3. ab = [j \in 1 .. i |-> p[j]]
      BY <3>1, <3>2
    <3> QED BY <3>3 DEF ab
  <2>11. Upto(i) = a \o b
    BY <2>10
  <2> QED BY Zenon, <2>2, <2>4, <2>5, <2>11
<1> HIDE DEF Upto
<1>5. flatten = Rec(flatten)
  <2>1. PICK g : g = [i \in 1 .. n |-> Upto(i)]
    OBVIOUS
  <2>2. ASSUME NEW i \in 1 .. n PROVE g[i] = IF i = 1 THEN seqs[i] ELSE g[i - 1] \o seqs[i]
    <3>1. i # 1 => i - 1 \in 1 .. n
      BY <1>1
    <3>2. g[i] = Upto(i) /\ (i # 1 => g[i - 1] = Upto(i - 1))
      BY <2>1, <3>1
    <3> QED BY Zenon, <1>3, <1>4, <3>2
  <2>3. g = Rec(g)
    <3>1. g = [i \in 1 .. n |-> g[i]]
      BY <2>1
    <3> QED BY Zenon, <2>2, <3>1
  <2> QED BY Zenon, <2>3
<1> DEFINE Right == {i \in 0 .. n : i # 0 => flatten[i] = Upto(i)}
<1>6. \A i \in 0 .. n : i \in Right
  <2>1. 0 \in Right
    BY <1>1
  <2>2. ASSUME NEW i \in 1 .. n, i - 1 \in Right PROVE i \in Right
    <3>1. flatten[i] = IF i = 1 THEN seqs[i] ELSE flatten[i - 1] \o seqs[i]
      <4> HIDE DEF flatten
      <4> QED BY Zenon, <1>5
    <3>2. i # 1 => flatten[i - 1] = Upto(i - 1)
      BY <1>1, <2>2
    <3> HIDE DEF flatten
    <3>3. flatten[i] = Upto(i)
      <4>1. CASE i = 1 BY <1>3, <3>1, <4>1
      <4>2. CASE i # 1 BY <1>4, <3>1, <3>2, <4>2
      <4> QED BY <4>1, <4>2
    <3>4. i \in 0 .. n
      BY <1>1
    <3>5. i \in 0 .. n /\ (i # 0 => flatten[i] = Upto(i))
      BY Zenon, <3>3, <3>4
    <3> HIDE DEF Upto, n
    <3> QED BY Zenon, <3>5
  <2> HIDE DEF Right
  <2> QED BY <1>1, <2>1, <2>2, CountsUp
<1>7. CASE n = 0
  <2>1. FlattenSeq(seqs) = seqs /\ seqs = << >> /\ p = << >>
    BY <1>1, <1>7 DEF FlattenSeq, n
  <2> QED BY <2>1
<1>8. CASE n # 0
  <2>1. FlattenSeq(seqs) = flatten[n]
    BY <1>1, <1>8 DEF FlattenSeq
  <2>2. flatten[n] = Upto(n)
    <3> HIDE DEF flatten
    <3>1. n \in Right
      <4> HIDE DEF Right
      <4> QED BY <1>1, <1>6
    <3> QED BY <1>8, <3>1
  <2> QED BY <1>2, <2>1, <2>2
<1> QED BY <1>7, <1>8

\* A value arrives in the place of its name, and a name without one stands for no value.
LEMMA ValueIsPlaced ==
  ASSUME NEW T, NEW text \in Seq(T), NEW vs, OneParts(vs),
         \A p \in DOMAIN Settings : Settings[p] = <<Settings[p][1]>>,
         NEW i \in DOMAIN text, text[i] \in Placeholders \ DOMAIN Settings
  PROVE  IF text[i] \in DOMAIN vs THEN ReplaceString(text, vs)[i] = vs[text[i]][1]
         ELSE ReplaceString(text, vs)[i] \in {NoValue, text[i]}
<1> DEFINE n == Len(text)
           replaced == [j \in 1 .. n |-> IF text[j] \in DOMAIN vs THEN vs[text[j]][1] ELSE text[j]]
           resolved == [j \in 1 .. n |-> IF replaced[j] \notin Placeholders THEN replaced[j]
                                         ELSE IF replaced[j] \in DOMAIN Settings THEN Settings[replaced[j]][1]
                                         ELSE NoValue]
<1>1. n \in Nat /\ DOMAIN text = 1 .. n /\ DOMAIN replaced = 1 .. n
  OBVIOUS
<1> HIDE DEF n
<1>2. replaceVars(text, vs) = replaced
  <2>1. replaced \in Seq({replaced[j] : j \in 1 .. n}) /\ Len(replaced) = n
    BY <1>1
  <2>2. [j \in DOMAIN text |-> IF text[j] \in DOMAIN vs THEN vs[text[j]] ELSE <<text[j]>>]
          = [j \in 1 .. n |-> <<replaced[j]>>]
    BY <1>1 DEF OneParts, OnePart
  <2> HIDE DEF replaced
  <2> QED BY <2>1, <2>2, FlattenOfOnes DEF replaceVars
<1>3. IF text[i] \in DOMAIN vs THEN replaced[i] = vs[text[i]][1] /\ replaced[i] \notin Placeholders
      ELSE replaced[i] = text[i]
  BY <1>1 DEF OneParts, OnePart
<1> HIDE DEF replaced
<1>4. ResolvedOr(replaced) \in {replaced, resolved}
  <2>1. CASE ~IsTemplate(replaced)
    BY <2>1 DEF ResolvedOr, Resolve, None
  <2>2. CASE IsTemplate(replaced) /\ \E j \in DOMAIN replaced : replaced[j] = Malformed
    BY <2>2 DEF ResolvedOr, Resolve, None
  <2>3. CASE IsTemplate(replaced) /\ ~\E j \in DOMAIN replaced : replaced[j] = Malformed
    <3> DEFINE seqs == [j \in DOMAIN replaced |->
                          IF replaced[j] \notin Placeholders THEN <<replaced[j]>>
                          ELSE IF replaced[j] \in DOMAIN Settings THEN Settings[replaced[j]] ELSE <<NoValue>>]
    <3>1. seqs = [j \in 1 .. n |-> <<resolved[j]>>]
      BY <1>1
    <3>2. resolved \in Seq({resolved[j] : j \in 1 .. n}) /\ Len(resolved) = n
      BY <1>1
    <3>3. Resolve(replaced) = {FlattenSeq(seqs)}
      BY <2>3 DEF Resolve
    <3> HIDE DEF seqs, resolved
    <3>4. FlattenSeq(seqs) = resolved
      BY <3>1, <3>2, FlattenOfOnes
    <3> QED BY <3>3, <3>4 DEF ResolvedOr, None
  <2> QED BY <2>1, <2>2, <2>3
<1>5. ReplaceString(text, vs) = ResolvedOr(replaced)
  BY <1>2 DEF ReplaceString
<1>6. resolved[i] = IF replaced[i] \notin Placeholders THEN replaced[i]
                    ELSE IF replaced[i] \in DOMAIN Settings THEN Settings[replaced[i]][1] ELSE NoValue
  BY <1>1
<1> HIDE DEF resolved
<1> QED BY <1>3, <1>4, <1>5, <1>6

\* An exact extractor finds a message's own data or nothing.
LEMMA DataIsFound ==
  ASSUME NEW cfg, ExactExtractor(cfg), NEW w, NEW state, NEW kind \in Kinds, NEW vs
  PROVE  Extract(cfg, [request |-> [found |-> NoVars], response |-> Message(w, state, kind), variables |-> vs])
           \subseteq {<< <<w, state.pass, state.name, state.repetition, state.attempts>> >>}
<1> DEFINE data == <<w, state.pass, state.name, state.repetition, state.attempts>>
           message == Message(w, state, kind)
           ctx == [request |-> [found |-> NoVars], response |-> message, variables |-> vs]
<1>1. \A type, path : <<type, path>> \in DOMAIN message.found =>
        path \in {"data", "echo"} /\ (path = "data" => message.found[<<type, path>>] = <<data>>)
  BY DEF Message, Kinds
<1>2. DOMAIN NoVars = {}
  BY DEF NoVars
<1> HIDE DEF message, data
<1>3. ASSUME NEW type PROVE Lookup(Source(cfg, ctx), type, cfg.path) \subseteq {<<data>>}
  <2>1. CASE cfg.source = "request"
    BY <1>2, <2>1 DEF Source, Lookup, None
  <2>2. CASE cfg.source # "request"
    BY <1>1, <2>2 DEF Source, Lookup, None, ExactExtractor
  <2> QED BY <2>1, <2>2
<1> HIDE DEF ctx
<1>4. Extract(cfg, ctx) \subseteq {<<data>>}
  BY <1>3 DEF Extract, ExactExtractor, extractJSONPath, extractRegex, extractHeader
<1> QED BY <1>4 DEF ctx, message, data

\* What exact extractors get of a message is its data, or a default.
FindsOnly(extractors, ctx, data) == \A i \in DOMAIN extractors : Extract(extractors[i], ctx) \subseteq {<<data>>}

LEMMA ExtractedIs ==
  ASSUME NEW extractors, ExactList(extractors), NEW ctx, NEW data, FindsOnly(extractors, ctx, data),
         NEW v, v \in DOMAIN extractAndStore(extractors, ctx)
  PROVE  \/ extractAndStore(extractors, ctx)[v] = <<data>>
         \/ \E i \in DOMAIN extractors :
              HasDefault(extractors[i]) /\ extractAndStore(extractors, ctx)[v] = extractors[i].default
<1> DEFINE value == extractAndStore(extractors, ctx)[v]
           any == LastWith(extractors, v, LAMBDA cfg : TRUE)
           extractor == CHOOSE cfg \in any : TRUE
           places == {i \in DOMAIN extractors : extractors[i].name = v}
<1>1. NewExtractorManager(extractors)
  BY DEF extractAndStore, NoVars
<1>2. v \in Names(extractors) /\ value \in ValueOf(extractors, v, ctx)
  BY <1>1 DEF extractAndStore, ExtractAll, None
<1>3. any = {extractors[i] : i \in {i \in places : \A j \in places : j <= i}}
  BY DEF LastWith
<1>4. places # {} /\ places \subseteq 1 .. Len(extractors) /\ Len(extractors) \in Nat
  BY <1>2 DEF Names, ExactList
<1>5. PICK m \in places : \A j \in places : m >= j
  <2> HIDE DEF places
  <2> QED BY <1>4, Greatest
<1>6. extractor \in any /\ \A cfg \in any : \E i \in DOMAIN extractors : cfg = extractors[i]
  <2>1. \A j \in places : j <= m
    BY <1>4, <1>5
  <2> HIDE DEF any
  <2> QED BY <1>3, <1>5, <2>1
<1>7. Extract(extractor, ctx) \subseteq {<<data>>}
  BY <1>6 DEF FindsOnly
<1>8. ASSUME NEW cfg \in LastWith(extractors, v, HasTransforms) PROVE Apply(<<data>>, cfg.transforms) \subseteq {<<data>>}
  BY DEF LastWith, ExactExtractor, ExactList
<1>9. ASSUME NEW cfg \in LastWith(extractors, v, HasDefault)
      PROVE  \E i \in DOMAIN extractors : HasDefault(extractors[i]) /\ cfg = extractors[i]
  BY DEF LastWith
<1> HIDE DEF value
<1>10. ValueOf(extractors, v, ctx)
         \subseteq {<<data>>} \cup {cfg.default : cfg \in LastWith(extractors, v, HasDefault)}
  <2> DEFINE found == Extract(extractor, ctx)
             transforms == {cfg.transforms : cfg \in LastWith(extractors, v, HasTransforms)}
             transformed == UNION {Apply(x, ts) : x \in found, ts \in transforms}
  <2>1. ValueOf(extractors, v, ctx)
          = IF found = None THEN {cfg.default : cfg \in LastWith(extractors, v, HasDefault)}
            ELSE IF transformed = None THEN found ELSE transformed
    BY DEF ValueOf
  <2>2. found \subseteq {<<data>>}
    BY <1>7
  <2> HIDE DEF found
  <2>3. transformed \subseteq {<<data>>}
    BY <1>8, <2>2
  <2> HIDE DEF transformed
  <2> QED BY <2>1, <2>2, <2>3
<1>11. value = <<data>> \/ \E i \in DOMAIN extractors : HasDefault(extractors[i]) /\ value = extractors[i].default
  <2>1. CASE value = <<data>>
    BY <2>1
  <2>2. CASE \E cfg \in LastWith(extractors, v, HasDefault) : value = cfg.default
    <3>1. PICK cfg \in LastWith(extractors, v, HasDefault) : value = cfg.default
      BY <2>2
    <3>2. PICK i \in DOMAIN extractors : HasDefault(extractors[i]) /\ cfg = extractors[i]
      BY <1>9
    <3> QED BY <3>1, <3>2
  <2>3. value = <<data>> \/ value \in {cfg.default : cfg \in LastWith(extractors, v, HasDefault)}
    BY <1>2, <1>10
  <2> QED BY <2>1, <2>2, <2>3
<1> QED BY <1>11 DEF value

\* What was extracted in a request is the data of the attempt that decided it, or a default.
Deciding(w, r) == << <<w, r.pass, r.name, r.repetition, r.attempts>> >>

OwnOrDefault(w, r) ==
  LET extractors == Selector.apis[r.name].extractors IN
  /\ r.name \in DOMAIN Selector.apis
  /\ \A v \in DOMAIN r.extracted :
       \/ r.extracted[v] = Deciding(w, r)
       \/ \E i \in DOMAIN extractors : HasDefault(extractors[i]) /\ r.extracted[v] = extractors[i].default

\* A worker's values have one part, as had those that each of its requests was made of.
ArriveInv(w) ==
  /\ OneParts(worker[w].vars)
  /\ \A r \in results[w] : OneParts(Values(Before(results[w], r))) /\ OwnOrDefault(w, r)

NameInv == turn \in Nat /\ \A w \in Workers : worker[w].pc = "sending" => worker[w].name \in DOMAIN Selector.apis

AllArrive == NameInv /\ \A w \in Workers : ArriveInv(w)

LEMMA ExactOf ==
  ASSUME Exact, config \in Configurations, NEW name \in DOMAIN Selector.apis
  PROVE  LET api == Selector.apis[name] IN
         /\ api.body \in Seq({api.body[i] : i \in DOMAIN api.body})
         /\ ExactList(api.extractors)
BY DEF Exact, Selector

LEMMA NextIsNamed ==
  ASSUME IInv, NameInv, NEW w \in Workers, NEW name \in NextRequest(w)
  PROVE  name \in DOMAIN Selector.apis
<1> DEFINE order == Selector.order
<1>1. order \in Seq(DOMAIN Selector.apis) \ {<< >>} /\ Selector.mode \in {"dependency", "roundRobin", "weighted"}
  BY RequestChainAssumption DEF IInv, Selector
<1>2. Len(order) \in Nat \ {0} /\ DOMAIN order = 1 .. Len(order) /\ \A i \in 1 .. Len(order) : order[i] \in DOMAIN Selector.apis
  BY <1>1
<1>3. worker[w].at \in 1 .. Len(order) /\ (turn % Len(order)) + 1 \in 1 .. Len(order)
  <2>1. \A m \in Nat \ {0}, n \in Nat : (n % m) + 1 \in 1 .. m
    OBVIOUS
  <2>2. turn \in Nat /\ worker[w].at \in 1 .. Len(order)
    BY DEF IInv, PlaceInv, Placed, NameInv
  <2> HIDE DEF order
  <2> QED BY <1>2, <2>1, <2>2
<1>4. name \in {order[i] : i \in 1 .. Len(order)}
  BY <1>1, <1>2, <1>3 DEF NextRequest, Chain, ToSet
<1> QED BY <1>2, <1>4

\* What is extracted of one part keeps the values at one part.
LEMMA PartsOfOverlaid ==
  ASSUME Exact, config \in Configurations, NEW w, NEW r, OwnOrDefault(w, r), NEW vs, OneParts(vs)
  PROVE  OneParts(Overlaid(vs, r.name, r.extracted))
<1>1. ASSUME NEW v \in DOMAIN r.extracted PROVE OnePart(r.extracted[v])
  <2>1. CASE r.extracted[v] = Deciding(w, r)
    <3> DEFINE data == <<w, r.pass, r.name, r.repetition, r.attempts>>
    <3>1. data \notin Placeholders
      <4>1. Len(data) # 2
        OBVIOUS
      <4>2. \A p \in Placeholders : Len(p) = 2
        BY Zenon DEF Exact
      <4> HIDE DEF data
      <4> QED BY <4>1, <4>2
    <3>2. Deciding(w, r) = <<data>>
      BY Zenon DEF Deciding
    <3> HIDE DEF data
    <3>3. r.extracted[v] = <<data>>
      BY <2>1, <3>2
    <3> QED BY <3>1, <3>3 DEF OnePart
  <2>2. CASE r.extracted[v] # Deciding(w, r)
    <3>1. PICK i \in DOMAIN Selector.apis[r.name].extractors :
            /\ HasDefault(Selector.apis[r.name].extractors[i])
            /\ r.extracted[v] = Selector.apis[r.name].extractors[i].default
      BY Zenon, <1>1, <2>2 DEF OwnOrDefault
    <3>2. ExactExtractor(Selector.apis[r.name].extractors[i])
      BY <3>1, ExactOf DEF OwnOrDefault, ExactList
    <3> QED BY <3>1, <3>2 DEF ExactExtractor
  <2> QED BY <2>1, <2>2
<1>2. \A key \in {<<r.name, v>> : v \in DOMAIN r.extracted} : key[2] \in DOMAIN r.extracted
  OBVIOUS
<1> QED BY <1>1, <1>2 DEF OneParts, Overlaid

LEMMA CollectArrives ==
  ASSUME Exact, IInv, AllFresh, NEW w \in Workers, ArriveInv(w), NEW state, Placed(state),
         state.pass = worker[w].pass, state.at = worker[w].at,
         state.repetition = worker[w].repetition, NEW result,
         state.vars = Overlaid(worker[w].vars, state.name, result.extracted),
         NEW own, own.pass = state.pass, own.name = state.name, own.repetition = state.repetition,
         own.attempts = result.attempts, own.extracted = result.extracted, OwnOrDefault(w, own),
         Collect(w, state, result), config' = config
  PROVE  ArriveInv(w)'
<1>1. ResultsInv /\ FreshInv(w)
  BY DEF AllFresh
<1>2. PICK new :
        /\ results'[w] = Current(w) \cup {new}
        /\ new.pass = state.pass /\ new.name = state.name
        /\ new.repetition = state.repetition /\ new.extracted = result.extracted
        /\ new.attempts = result.attempts
        /\ Before(results'[w], new) = Current(w)
        /\ \A r \in Current(w) : Before(results'[w], r) = Before(Current(w), r)
  BY <1>1, CollectPlaces
<1>3. OwnOrDefault(w, new)
  BY <1>2 DEF OwnOrDefault, Deciding
<1>4. OneParts(state.vars)
  BY <1>2, <1>3, PartsOfOverlaid DEF IInv, ArriveInv
<1>5. OneParts(Values(Before(results'[w], new)))
  BY <1>1, <1>2 DEF FreshInv, ArriveInv
<1>6. ASSUME NEW r \in Current(w)
      PROVE  OneParts(Values(Before(results'[w], r))) /\ OwnOrDefault(w, r)
  BY <1>1, <1>2, <1>6 DEF FreshInv, ArriveInv
<1>7. \A r \in results'[w] : OneParts(Values(Before(results'[w], r))) /\ OwnOrDefault(w, r)
  BY <1>2, <1>3, <1>5, <1>6
<1>8. worker'[w] = Advance(w, state)
  BY DEF Collect, IInv, PlaceInv
<1>9. Advance(w, state).vars \in {state.vars, NoVars}
  BY DEF Advance, Placed, Fields, Start
<1>10. OneParts(worker'[w].vars)
  BY <1>4, <1>8, <1>9 DEF OneParts, NoVars
<1> QED BY <1>7, <1>10 DEF ArriveInv, OwnOrDefault, Selector, Deciding

\* A step that collects a result, and one that does not.
LEMMA CollectAllArrive ==
  ASSUME Exact, IInv, AllFresh, AllArrive, NEW w \in Workers, NEW state, Placed(state),
         state.pass = worker[w].pass, state.at = worker[w].at,
         state.repetition = worker[w].repetition, NEW result,
         state.vars = Overlaid(worker[w].vars, state.name, result.extracted),
         NEW own, own.pass = state.pass, own.name = state.name, own.repetition = state.repetition,
         own.attempts = result.attempts, own.extracted = result.extracted, OwnOrDefault(w, own),
         Collect(w, state, result), config' = config, turn' \in Nat
  PROVE  AllArrive'
<1>1. /\ ResultsInv
      /\ \A v \in Workers \ {w} : results'[v] = results[v] /\ worker'[v] = worker[v]
  BY CollectResults DEF AllFresh
<1>2. ArriveInv(w)'
  BY CollectArrives DEF AllArrive
<1>3. ASSUME NEW v \in Workers \ {w} PROVE ArriveInv(v)'
  BY <1>1 DEF AllArrive, ArriveInv, OwnOrDefault, Selector, Deciding
<1>4. worker'[w] = Advance(w, state) /\ Advance(w, state).pc # "sending"
  <2>1. worker'[w] = Advance(w, state)
    BY DEF Collect, IInv, PlaceInv
  <2> QED BY <2>1 DEF Advance, Placed, Fields, Start
<1>5. NameInv'
  BY <1>1, <1>4 DEF AllArrive, NameInv, Selector
<1> QED BY <1>2, <1>3, <1>5 DEF AllArrive

LEMMA KeepsAllArrive ==
  ASSUME IInv, AllArrive, UNCHANGED <<config, results>>, turn' \in Nat,
         \A w \in Workers : worker'[w].vars = worker[w].vars,
         \A w \in Workers : worker'[w].pc = "sending" => worker'[w].name \in DOMAIN Selector.apis
  PROVE  AllArrive'
<1>1. ASSUME NEW w \in Workers PROVE ArriveInv(w)'
  BY DEF AllArrive, ArriveInv, OwnOrDefault, Selector, Deciding
<1>2. NameInv'
  BY DEF NameInv, Selector
<1> QED BY <1>1, <1>2 DEF AllArrive

LEMMA CompleteArrives ==
  ASSUME Exact, IInv, AllFresh, AllArrive, NEW w \in Workers, NEW state, Placed(state),
         state.pass = worker[w].pass, state.at = worker[w].at,
         state.repetition = worker[w].repetition, state.vars = worker[w].vars,
         state.name \in DOMAIN Selector.apis, NEW failed, NEW messages, NEW refused,
         messages = None \/ \E kind \in Kinds : messages = {Message(w, state, kind)},
         Complete(w, state, failed, messages, refused), config' = config, turn' \in Nat
  PROVE  AllArrive'
<1> DEFINE api == Selector.apis[state.name]
           ctx == [request |-> [found |-> NoVars], response |-> CHOOSE m \in messages : TRUE,
                   variables |-> state.vars]
           extracted == IF messages = None THEN NoVars ELSE extractAndStore(api.extractors, ctx)
           stored == Stored(state, extracted)
           marked == MarksFailed(api, messages, failed, stored)
           result == [skipped |-> FALSE, success |-> ~failed, refused |-> refused, marked |-> marked,
                      body |-> state.body, extracted |-> extracted, attempts |-> state.attempts, cause |-> {}]
           ended == [state EXCEPT !.vars = stored,
                                  !.failed = IF marked THEN state.failed \cup {state.name} ELSE state.failed]
           own == [pass |-> state.pass, name |-> state.name, repetition |-> state.repetition,
                   attempts |-> state.attempts, extracted |-> extracted]
<1>1. Collect(w, ended, result)
  BY DEF Complete, Placed, Fields
<1>2. stored = Overlaid(worker[w].vars, state.name, extracted)
  BY DEF Stored, Overlaid
<1>3. ASSUME NEW v \in DOMAIN extracted
      PROVE  \/ extracted[v] = Deciding(w, state)
             \/ \E i \in DOMAIN api.extractors : HasDefault(api.extractors[i]) /\ extracted[v] = api.extractors[i].default
  <2>1. messages # None
    BY <1>3 DEF NoVars
  <2>2. PICK kind \in Kinds : messages = {Message(w, state, kind)}
    BY <2>1
  <2>3. ctx = [request |-> [found |-> NoVars], response |-> Message(w, state, kind), variables |-> state.vars]
    BY <2>2
  <2>4. ExactList(api.extractors)
    BY ExactOf DEF IInv
  <2>5. extracted = extractAndStore(api.extractors, ctx)
    BY <2>1
  <2> HIDE DEF extracted, ctx
  <2>6. \A i \in DOMAIN api.extractors : Extract(api.extractors[i], ctx) \subseteq {Deciding(w, state)}
    BY <2>3, <2>4, DataIsFound DEF Deciding, ExactList
  <2>7. PICK data : Deciding(w, state) = <<data>>
    BY DEF Deciding
  <2>8. PICK extractors : extractors = api.extractors
    OBVIOUS
  <2> HIDE DEF api
  <2>9. /\ ExactList(extractors)
        /\ FindsOnly(extractors, ctx, data)
        /\ v \in DOMAIN extractAndStore(extractors, ctx)
    BY <1>3, <2>4, <2>5, <2>6, <2>7, <2>8 DEF FindsOnly
  <2>10. \/ extractAndStore(extractors, ctx)[v] = <<data>>
         \/ \E i \in DOMAIN extractors :
              HasDefault(extractors[i]) /\ extractAndStore(extractors, ctx)[v] = extractors[i].default
    BY <2>9, ExtractedIs
  <2> QED BY <2>5, <2>7, <2>8, <2>10
<1> HIDE DEF marked, stored, extracted
<1>4. OwnOrDefault(w, own)
  BY <1>3 DEF OwnOrDefault, Deciding
<1>5. /\ own.pass = ended.pass /\ own.name = ended.name /\ own.repetition = ended.repetition
      /\ own.attempts = result.attempts /\ own.extracted = result.extracted
      /\ Placed(ended) /\ ended.pass = state.pass /\ ended.at = state.at
      /\ ended.repetition = state.repetition
      /\ ended.vars = Overlaid(worker[w].vars, ended.name, result.extracted)
  BY <1>2 DEF Placed, Fields
<1> HIDE DEF own, ended, result
<1> QED BY <1>1, <1>4, <1>5, CollectAllArrive

LEMMA InitArrive == Init => AllArrive
<1> SUFFICES ASSUME Init PROVE AllArrive
  OBVIOUS
<1>1. turn = 0 /\ results = [w \in Workers |-> {}] /\ worker = [w \in Workers |-> Start(0)]
  BY DEF Init
<1>2. NameInv
  BY <1>1 DEF NameInv, Start
<1>3. ASSUME NEW w \in Workers PROVE ArriveInv(w)
  BY <1>1 DEF ArriveInv, OneParts, Start, NoVars
<1> QED BY <1>2, <1>3 DEF AllArrive

LEMMA ArriveStep == Exact /\ IInv /\ AllFresh /\ AllArrive /\ [Next]_vars => AllArrive'
<1> SUFFICES ASSUME Exact, IInv, AllFresh, AllArrive, [Next]_vars PROVE AllArrive'
  OBVIOUS
<1>0. turn \in Nat /\ config \in Configurations
  BY DEF AllArrive, NameInv, IInv
<1>1. CASE ResetTimeout \/ UNCHANGED vars
  <2>1. UNCHANGED <<config, turn, worker, results>>
    BY <1>1 DEF ResetTimeout, vars
  <2>2. \A w \in Workers : worker[w].pc = "sending" => worker[w].name \in DOMAIN Selector.apis
    BY DEF AllArrive, NameInv
  <2> QED BY <1>0, <2>1, <2>2, KeepsAllArrive
<1>2. ASSUME NEW w \in Workers, Skip(w) PROVE AllArrive'
  <2>1. PICK name \in NextRequest(w) :
          Collect(w, [worker[w] EXCEPT !.name = name],
                  [skipped |-> TRUE, success |-> FALSE, refused |-> FALSE, marked |-> FALSE,
                   body |-> ReplaceString(Selector.apis[name].body, worker[w].vars),
                   extracted |-> NoVars, attempts |-> 0, cause |-> getFailedDependencies(w, name)])
    BY <1>2 DEF Skip
  <2>2. PICK result :
          result.extracted = NoVars /\ Collect(w, [worker[w] EXCEPT !.name = name], result)
    <3> DEFINE placed == [skipped |-> TRUE, success |-> FALSE, refused |-> FALSE, marked |-> FALSE,
                          body |-> ReplaceString(Selector.apis[name].body, worker[w].vars),
                          extracted |-> NoVars, attempts |-> 0, cause |-> getFailedDependencies(w, name)]
    <3>1. placed.extracted = NoVars
      OBVIOUS
    <3>2. Collect(w, [worker[w] EXCEPT !.name = name], placed)
      BY <2>1
    <3> HIDE DEF placed
    <3> QED BY <3>1, <3>2
  <2>3. worker[w].pc = "ready" /\ config' = config /\ turn' \in Nat
    BY <1>0, <1>2 DEF Skip, TakeTurn
  <2>4. PICK state : state = [worker[w] EXCEPT !.name = name]
    OBVIOUS
  <2>5. Placed(state)
    BY <2>3, <2>4, BuiltPlaced
  <2>6. /\ state.pass = worker[w].pass /\ state.at = worker[w].at /\ state.name = name
        /\ state.repetition = worker[w].repetition /\ state.vars = worker[w].vars
    BY <2>4 DEF IInv, PlaceInv, Placed, Fields
  <2>7. worker[w].vars = Overlaid(worker[w].vars, name, NoVars)
    <3>1. worker[w].vars = Values(Current(w))
      BY DEF AllFresh, FreshInv
    <3>2. worker[w].vars = [key \in DOMAIN worker[w].vars |-> worker[w].vars[key]]
      BY <3>1 DEF Values
    <3>3. {<<name, v>> : v \in DOMAIN NoVars} = {}
      BY DEF NoVars
    <3> QED BY <3>2, <3>3 DEF Overlaid
  <2>8. PICK own : /\ own.pass = state.pass /\ own.name = state.name /\ own.repetition = state.repetition
                   /\ own.attempts = result.attempts /\ own.extracted = result.extracted
    <3> DEFINE filled == [pass |-> state.pass, name |-> state.name, repetition |-> state.repetition,
                          attempts |-> result.attempts, extracted |-> result.extracted]
    <3>1. /\ filled.pass = state.pass /\ filled.name = state.name
          /\ filled.repetition = state.repetition /\ filled.attempts = result.attempts
          /\ filled.extracted = result.extracted
      OBVIOUS
    <3> HIDE DEF filled
    <3> QED BY <3>1
  <2>9. OwnOrDefault(w, own)
    <3>1. own.name \in DOMAIN Selector.apis
      BY <2>6, <2>8, NextIsNamed DEF AllArrive
    <3>2. DOMAIN own.extracted = {}
      BY <2>2, <2>8 DEF NoVars
    <3> QED BY <3>1, <3>2 DEF OwnOrDefault
  <2> QED BY <2>2, <2>3, <2>4, <2>5, <2>6, <2>7, <2>8, <2>9, CollectAllArrive
<1>3. ASSUME NEW w \in Workers, Begin(w) PROVE AllArrive'
  <2>1. PICK name \in NextRequest(w) : worker' = [worker EXCEPT ![w] = BuildRequest(w, name)]
    BY <1>3 DEF Begin
  <2>2. UNCHANGED <<config, results>> /\ turn' \in Nat
    BY <1>0, <1>3 DEF Begin, TakeTurn
  <2>3. PICK state : state = BuildRequest(w, name)
    OBVIOUS
  <2>4. state.name = name /\ state.vars = worker[w].vars
    BY <2>3 DEF BuildRequest, IInv, PlaceInv, Placed, Fields
  <2>5. name \in DOMAIN Selector.apis
    BY NextIsNamed DEF AllArrive
  <2>6. worker'[w] = state /\ \A v \in Workers \ {w} : worker'[v] = worker[v]
    BY <2>1, <2>3 DEF IInv, PlaceInv
  <2>7. \A v \in Workers : worker'[v].vars = worker[v].vars
    BY <2>4, <2>6
  <2>8. \A v \in Workers : worker'[v].pc = "sending" => worker'[v].name \in DOMAIN Selector.apis
    BY <2>4, <2>5, <2>6 DEF AllArrive, NameInv
  <2> QED BY <2>2, <2>7, <2>8, KeepsAllArrive
<1>4. ASSUME NEW w \in Workers, Refuse(w) PROVE AllArrive'
  <2>1. PICK name \in NextRequest(w) : Complete(w, BuildRequest(w, name), TRUE, None, TRUE)
    BY <1>4 DEF Refuse
  <2>2. worker[w].pc = "ready" /\ config' = config /\ turn' \in Nat
    BY <1>0, <1>4 DEF Refuse, TakeTurn
  <2>3. PICK state : state = BuildRequest(w, name)
    OBVIOUS
  <2>4. Placed(state)
    BY <2>2, <2>3, BuiltPlaced
  <2>5. /\ state.pass = worker[w].pass /\ state.at = worker[w].at /\ state.name = name
        /\ state.repetition = worker[w].repetition /\ state.vars = worker[w].vars
    BY <2>3 DEF BuildRequest, IInv, PlaceInv, Placed, Fields
  <2>6. name \in DOMAIN Selector.apis
    BY NextIsNamed DEF AllArrive
  <2> QED BY <2>1, <2>2, <2>3, <2>4, <2>5, <2>6, CompleteArrives
<1>5. ASSUME NEW w \in Workers, NEW kind \in Kinds, Retry(w, kind) PROVE AllArrive'
  <2>1. PICK state : state = [worker[w] EXCEPT !.attempts = worker[w].attempts + 1]
    OBVIOUS
  <2>2. /\ worker[w].pc = "sending" /\ UNCHANGED <<config, turn, results>>
        /\ worker' = [worker EXCEPT ![w] = state]
    BY <1>5, <2>1 DEF Retry, IInv, PlaceInv
  <2>3. state.name = worker[w].name /\ state.vars = worker[w].vars
    BY <2>1 DEF IInv, PlaceInv, Placed, Fields
  <2>4. worker'[w] = state /\ \A v \in Workers \ {w} : worker'[v] = worker[v]
    BY <2>2 DEF IInv, PlaceInv
  <2>5. \A v \in Workers : worker'[v].vars = worker[v].vars
    BY <2>3, <2>4
  <2>6. \A v \in Workers : worker'[v].pc = "sending" => worker'[v].name \in DOMAIN Selector.apis
    BY <2>2, <2>3, <2>4 DEF AllArrive, NameInv
  <2> QED BY <1>0, <2>2, <2>5, <2>6, KeepsAllArrive
<1>6. ASSUME NEW w \in Workers, NEW kind \in Kinds, Send(w, kind) PROVE AllArrive'
  <2>1. PICK state : state = [worker[w] EXCEPT !.attempts = worker[w].attempts + 1]
    OBVIOUS
  <2>2. /\ worker[w].pc = "sending" /\ config' = config /\ turn' \in Nat
        /\ Complete(w, state, kind \in Failing, Answer(w, state, kind), FALSE)
    BY <1>0, <1>6, <2>1 DEF Send
  <2>3. Answer(w, state, kind) = None \/ Answer(w, state, kind) = {Message(w, state, kind)}
    BY DEF Answer
  <2>4. /\ state.pass = worker[w].pass /\ state.at = worker[w].at /\ state.name = worker[w].name
        /\ state.repetition = worker[w].repetition /\ state.vars = worker[w].vars
    BY <2>1 DEF IInv, PlaceInv, Placed, Fields
  <2>5. Placed(state)
    <3>1. Placed(worker[w])
      BY DEF IInv, PlaceInv
    <3> QED BY <2>1, <3>1 DEF Placed, Fields
  <2>6. worker[w].name \in DOMAIN Selector.apis
    BY <2>2 DEF AllArrive, NameInv
  <2> QED BY <2>2, <2>3, <2>4, <2>5, <2>6, CompleteArrives
<1> QED BY <1>1, <1>2, <1>3, <1>4, <1>5, <1>6 DEF Next, Done

LEMMA ArrivesThen == Exact /\ IInv /\ AllFresh /\ AllArrive => ValuesArrive
<1> SUFFICES ASSUME Exact, config \in Configurations, AllFresh, AllArrive,
                    NEW w \in Workers, NEW r \in results[w]
             PROVE  LET api == Selector.apis[r.name]
                        values == Values(Before(results[w], r))
                    IN /\ \A v \in DOMAIN r.extracted :
                            \/ r.extracted[v] = << <<w, r.pass, r.name, r.repetition, r.attempts>> >>
                            \/ \E i \in DOMAIN api.extractors : r.extracted[v] = api.extractors[i].default
                       /\ \A i \in DOMAIN api.body : api.body[i] \in Placeholders \ DOMAIN Settings =>
                            IF api.body[i] \in DOMAIN values THEN r.body[i] = values[api.body[i]][1]
                            ELSE r.body[i] \in {NoValue, api.body[i]}
  BY DEF ValuesArrive, IInv
<1>1. OneParts(Values(Before(results[w], r))) /\ OwnOrDefault(w, r) /\ Made(results[w], r)
  BY DEF AllFresh, FreshInv, AllArrive, ArriveInv
<1>2. PICK text : text = Selector.apis[r.name].body
  OBVIOUS
<1>3. PICK values : values = Values(Before(results[w], r))
  OBVIOUS
<1>4. r.body = ReplaceString(text, values)
  BY <1>1, <1>2, <1>3 DEF Made
<1>5. PICK T : text \in Seq(T)
  BY <1>1, <1>2, ExactOf DEF OwnOrDefault
<1>6. ASSUME NEW i \in DOMAIN text, text[i] \in Placeholders \ DOMAIN Settings
      PROVE  IF text[i] \in DOMAIN values THEN r.body[i] = values[text[i]][1]
             ELSE r.body[i] \in {NoValue, text[i]}
  <2>1. OneParts(values) /\ \A p \in DOMAIN Settings : Settings[p] = <<Settings[p][1]>>
    BY <1>1, <1>3 DEF Exact
  <2> QED BY <1>4, <1>5, <1>6, <2>1, ValueIsPlaced
<1>7. \A v \in DOMAIN r.extracted :
        \/ r.extracted[v] = << <<w, r.pass, r.name, r.repetition, r.attempts>> >>
        \/ \E i \in DOMAIN Selector.apis[r.name].extractors :
             r.extracted[v] = Selector.apis[r.name].extractors[i].default
  BY <1>1 DEF OwnOrDefault, Deciding
<1> QED BY <1>2, <1>3, <1>6, <1>7

\* What an exact extractor took of a response is of the attempt that decided the request, or
\* its default, and arrives in the place of its name in every later request of the pass; a
\* name that nobody has set stands for no value (worker.go, depContext; extractor.go;
\* variable_replacer.go).
THEOREM ValuesAlwaysArrive == Exact => (Spec => []ValuesArrive)
<1> SUFFICES ASSUME Exact PROVE Spec => []ValuesArrive
  OBVIOUS
<1> DEFINE Inv == IInv /\ AllFresh /\ AllArrive
<1>1. Init => Inv
  BY InitInv, InitFresh, InitArrive
<1>2. Inv /\ [Next]_vars => Inv'
  BY InvStep, FreshStep, ArriveStep
<1>3. Inv => ValuesArrive
  BY ArrivesThen
<1> HIDE DEF Inv
<1> QED
  BY <1>1, <1>2, <1>3, PTL DEF Spec
=============================================================================
