------------------------------ MODULE Selection -----------------------------
(***************************************************************************)
(* Which slaves get a task, and how many of its workers each of them is    *)
(* given: the selectors (distributed/master/selector.go), the pool's       *)
(* queries (pool.go), the filters (master.go:filterSlaves,                 *)
(* common/filter.go) and the splitters (splitter.go).                      *)
(*                                                                         *)
(* A slave is a record of what these read of its SlaveInfo.  Lists come in *)
(* the order of a Go map, so that callers quantify over their orders.  A   *)
(* selector is the set of the lists it may return.  CPU cores and weights  *)
(* are integers: their quotients are exact where the code compares them.   *)
(***************************************************************************)
EXTENDS Integers, SequencesExt, FiniteSetsExt

\* slices of Go: all of it, when count is large enough
FirstOf(slaves, count) == IF count >= Len(slaves) THEN slaves ELSE SubSeq(slaves, 1, count)

\* The slaves of a list that are in a set, in the order of the list.
Keep(slaves, set) == FlattenSeq([i \in DOMAIN slaves |-> IF slaves[i] \in set THEN <<slaves[i]>> ELSE << >>])

GetHealthy(slaves) == Keep(slaves, {s \in ToSet(slaves) : s.state \notin {"offline", "error"}})
GetIdle(slaves) == Keep(slaves, {s \in ToSet(slaves) : s.state = "idle"})

-----------------------------------------------------------------------------
(* Selectors.                                                              *)

\* The orders in which Shuffle may leave a list.
Shuffles(slaves) == {[i \in DOMAIN slaves |-> slaves[p[i]]] : p \in SetToSeqs(DOMAIN slaves)}

Random(slaves, count) ==
  IF count >= Len(slaves) THEN {slaves} ELSE {SubSeq(p, 1, count) : p \in Shuffles(slaves)}

\* Mutant: the most loaded slaves come first.
MostLoaded(slaves, count) ==
  IF count >= Len(slaves) THEN {slaves}
  ELSE {SubSeq(p, 1, count) : p \in {q \in Shuffles(slaves) :
          \A i, j \in DOMAIN q : i < j => q[i].load >= q[j].load}}

\* sort.Slice leaves slaves of the same load in any order.
LeastLoaded(slaves, count) ==
  IF count >= Len(slaves) THEN {slaves}
  ELSE {SubSeq(p, 1, count) : p \in {q \in Shuffles(slaves) :
          \A i, j \in DOMAIN q : i < j => q[i].load <= q[j].load}}

LocationAware(slaves, count, regions) ==
  LET near == {s \in ToSet(slaves) : s.region \in regions}
  IN {FirstOf(Keep(slaves, near) \o Keep(slaves, ToSet(slaves) \ near), count)}

\* The index moves on by count, unless all slaves are taken.
RoundRobin(slaves, count, index) ==
  IF count >= Len(slaves) THEN {[chosen |-> slaves, index |-> index]}
  ELSE {[chosen |-> [i \in 1 .. count |-> slaves[((index + i - 1) % Len(slaves)) + 1]],
         index |-> (index + count) % Len(slaves)]}

\* An unknown strategy selects at random.
GetSelector(strategy, regions, slaves, count) ==
  CASE strategy = "least_loaded" -> LeastLoaded(slaves, count)
    [] strategy = "location_aware" -> LocationAware(slaves, count, regions)
    [] strategy = "round_robin" -> {r.chosen : r \in RoundRobin(slaves, count, 0)}
    [] OTHER -> Random(slaves, count)

\* The pool of the master.
Select(slaves, count) == GetSelector("least_loaded", {}, GetHealthy(slaves), count)

-----------------------------------------------------------------------------
(* Filters.                                                                *)

\* Empty lists of IDs, regions, labels and states ask for nothing.
IsSlaveValid(filter, s) ==
  /\ filter.includeIDs = {} \/ s.id \in filter.includeIDs
  /\ s.id \notin filter.excludeIDs
  /\ filter.includeRegions = {} \/ s.region \in filter.includeRegions
  /\ s.region \notin filter.excludeRegions
  /\ filter.includeLabels \subseteq s.labels /\ filter.excludeLabels \cap s.labels = {}
  /\ filter.requiredStates = {} \/ s.state \in filter.requiredStates
  /\ s.state \notin filter.excludedStates
  /\ s.cores >= filter.minCores
  /\ s.reports /\ filter.maxCPU > 0 => s.cpu <= filter.maxCPU
  /\ ~filter.allowReuse => s.running = 0
  /\ s.maxConcurrency > 0 => s.running < s.maxConcurrency

\* The filtered slaves, the idle ones first if that is preferred, and of them what the
\* selector takes.
SelectWithFilter(slaves, count, filter) ==
  LET valid == Keep(slaves, {s \in ToSet(slaves) : IsSlaveValid(filter, s)})
      free == {s \in ToSet(valid) : s.state = "idle" \/ s.running = 0}
      sorted == Keep(valid, free) \o Keep(valid, ToSet(valid) \ free)
  IN LeastLoaded(IF filter.preferIdle THEN sorted ELSE valid, count)

NoRegion == "no region"

\* A start request names slaves, or else a region, or else nothing; what it gets is idle.
filterSlaves(slaves, ids, region) ==
  LET idle == GetIdle(slaves)
  IN Keep(idle, {s \in ToSet(idle) : IF ids # {} THEN s.id \in ids ELSE region \in {NoRegion, s.region}})

\* Without options: as many as the workers need, rounded down, and no more than there are.
getRequiredSlaveCount(slaves, totalWorkers, workersPerSlave, minSlaveCount) ==
  Min({Max({totalWorkers \div workersPerSlave, minSlaveCount}), Len(slaves)})

\* The lists of slaves that a start request without options may get.
DefaultStart(slaves, totalWorkers, workersPerSlave, minSlaveCount) ==
  Select(slaves, getRequiredSlaveCount(slaves, totalWorkers, workersPerSlave, minSlaveCount))

-----------------------------------------------------------------------------
(* Splitters.  A part is a slave's ID and its number of workers.           *)

Sum(numbers) ==
  LET sum[i \in 0 .. Len(numbers)] == IF i = 0 THEN 0 ELSE sum[i - 1] + numbers[i]
  IN sum[Len(numbers)]

Part(s, workers) == IF workers = 0 THEN << >> ELSE <<[slave |-> s.id, workers |-> workers]>>
Parts(slaves, workers) == FlattenSeq([i \in DOMAIN slaves |-> Part(slaves[i], workers[i])])

EqualSplit(slaves, totalWorkers) ==
  Parts(slaves, [i \in DOMAIN slaves |-> totalWorkers \div Len(slaves)
                                           + IF i <= totalWorkers % Len(slaves) THEN 1 ELSE 0])

getWeight(weights, s) == IF s.id \in DOMAIN weights THEN weights[s.id] ELSE s.cores

\* Each gets its share rounded down, the last one the rest.
WeightedSplit(slaves, totalWorkers, weights) ==
  LET n == Len(slaves)
      total == Sum([i \in 1 .. n |-> getWeight(weights, slaves[i])])
      share == [i \in 1 .. n |-> (totalWorkers * getWeight(weights, slaves[i])) \div total]
      given == Sum(SubSeq(share, 1, n - 1))
  IN Parts(slaves, [share EXCEPT ![n] = totalWorkers - given])

-----------------------------------------------------------------------------
(* Properties.                                                             *)

Workers(parts) == Sum([i \in DOMAIN parts |-> parts[i].workers])

\* Lists of a given number of slaves with different IDs.
SelectorIsFair(slaves, count) ==
  LET all == ToSet(slaves)
      Complete(chosen) == /\ ToSet(chosen) \subseteq all /\ IsInjective(chosen)
                          /\ Len(chosen) = Min({count, Len(slaves)})
  IN /\ \A strategy \in {"least_loaded", "location_aware", "round_robin", "random"} :
          \A chosen \in GetSelector(strategy, {"north"}, slaves, count) : Complete(chosen)
     /\ \A chosen \in LeastLoaded(slaves, count) :
          \A s \in ToSet(chosen), t \in all \ ToSet(chosen) : s.load <= t.load
     /\ \A chosen \in LocationAware(slaves, count, {"north"}) :
          \A s \in ToSet(chosen), t \in all \ ToSet(chosen) : t.region = "north" => s.region = "north"
     \* two turns in a row take everyone once before anyone twice
     /\ \A first \in RoundRobin(slaves, count, 0) :
          \A second \in RoundRobin(slaves, count, first.index) :
            2 * count <= Len(slaves) => ToSet(first.chosen) \cap ToSet(second.chosen) = {}

SplitIsComplete(slaves, totalWorkers, weights) ==
  LET Sound(parts) == /\ Workers(parts) = totalWorkers
                      /\ \A i, j \in DOMAIN parts : parts[i].slave = parts[j].slave => i = j
                      /\ \A i \in DOMAIN parts : parts[i].workers > 0
      equal == EqualSplit(slaves, totalWorkers)
  IN slaves # << >> =>
       /\ Sound(equal)
       /\ \A i, j \in DOMAIN equal : equal[i].workers - equal[j].workers <= 1
       /\ Len(equal) = Min({totalWorkers, Len(slaves)})
       /\ (\E i \in DOMAIN slaves : getWeight(weights, slaves[i]) > 0) =>
            Sound(WeightedSplit(slaves, totalWorkers, weights))

\* A start without options gets as many of the slaves that are neither offline nor in error as
\* its workers need at workersPerSlave each, minSlaveCount at least, or all of them if they are
\* fewer: those that are busy as well, and NOT "all available slaves", as DISTRIBUTED_MODE.md
\* (112-114) and the repository's README.md (144) describe the default.
DefaultIsSized(slaves, totalWorkers) ==
  LET healthy == GetHealthy(slaves)
  IN \A workersPerSlave, minSlaveCount \in {1, 2} :
       \A chosen \in DefaultStart(slaves, totalWorkers, workersPerSlave, minSlaveCount) :
         /\ Len(chosen) = Min({Max({totalWorkers \div workersPerSlave, minSlaveCount}), Len(healthy)})
         /\ ToSet(chosen) \subseteq ToSet(healthy)

\* A start request gets idle slaves only, all those it named, or those of its region.  A filter
\* lets no slave through that is excluded or has no room.
FiltersHold(slaves, count, ids, filter) ==
  LET named == ToSet(filterSlaves(slaves, ids, "north"))
      Valid(s) == IsSlaveValid(filter, s)
  IN /\ \A s \in ToSet(slaves) : s \in named <=>
          s.state = "idle" /\ IF ids = {} THEN s.region = "north" ELSE s.id \in ids
     /\ \A chosen \in SelectWithFilter(slaves, count, filter) :
          /\ Len(chosen) = Min({count, Cardinality({s \in ToSet(slaves) : Valid(s)})})
          /\ \A s \in ToSet(chosen) :
               /\ s.id \notin filter.excludeIDs /\ s.region \notin filter.excludeRegions
               /\ s.running > 0 => filter.allowReuse
               /\ s.running = 0 \/ s.running < s.maxConcurrency \/ s.maxConcurrency = 0

\* Every selector returns as many different slaves as it can of those it was offered: the
\* least loaded, those of the preferred regions, or those whose turn it is; whatever the loads
\* are, none of which the program ever sets (models.go:34).  A default start is sized by the
\* task's workers.  The splitters give away all workers of a task, each slave at most one
\* part, no part is empty, and equal parts differ by one at most (selector.go, splitter.go).
\* Filters hold.
SelectsSlaves(Lists, Counts, Weights, IDs, SlaveFilters) ==
  \A slaves \in Lists, count \in Counts :
    /\ SelectorIsFair(slaves, count)
    /\ DefaultIsSized(slaves, count)
    /\ \A weights \in Weights : SplitIsComplete(slaves, count, weights)
    /\ \A ids \in IDs, filter \in SlaveFilters : FiltersHold(slaves, count, ids, filter)
=============================================================================
