----------------------------- MODULE Dependency -----------------------------
(***************************************************************************)
(* Which API a worker calls next (executor/dependency.go and               *)
(* api_selector.go): the order in which APIs that depend on each other are *)
(* executed, found by a depth-first search, and the three selectors.       *)
(*                                                                         *)
(* An API is a record [name, dependsOn, weight, extractors]; dependsOn and *)
(* extractors are sequences, and only whether extractors is empty matters  *)
(* here.  Go visits a map in any order: an order of its keys is a          *)
(* parameter.  Logging and the resolver's own, unused, copies of the       *)
(* variables and failures of a worker are left out.                        *)
(***************************************************************************)
EXTENDS Integers, Sequences, FiniteSets, SequencesExt, FiniteSetsExt, TLC

NoName == ""

\* NewDependencyResolver names the nameless by their place, and the last API of a name wins.
Named(apis) ==
  [i \in DOMAIN apis |-> IF apis[i].name = NoName
                         THEN [apis[i] EXCEPT !.name = "api_" \o ToString(i)] ELSE apis[i]]

apiMap(apis) ==
  LET named == Named(apis)
      LastOf(name) == Max({i \in DOMAIN named : named[i].name = name})
  IN [name \in {named[i].name : i \in DOMAIN named} |-> named[LastOf(name)]]

HasDependencies(apis) == \E i \in DOMAIN apis : apis[i].dependsOn # << >>

-----------------------------------------------------------------------------
(* The search.  Its state is what the closure of resolveDependencies       *)
(* captures, and the error that ends it.                                   *)

Unvisited == [visited |-> {}, visiting |-> {}, order |-> << >>, failed |-> FALSE]

\* Mutant: a name is appended before what it depends on.
AppendFirst(search, name) ==
  [search EXCEPT !.visiting = @ \ {name}, !.visited = @ \cup {name}, !.order = <<name>> \o @]

\* What visit does once all dependencies of name have been visited.
AppendName(search, name) ==
  [search EXCEPT !.visiting = @ \ {name}, !.visited = @ \cup {name}, !.order = Append(@, name)]

DependenciesIn(map, name) == ToSet(map[name].dependsOn)

\* All names that occur, those of no API included.
NamesIn(map) == DOMAIN map \cup UNION {DependenciesIn(map, name) : name \in DOMAIN map}
Searches(map) == [visited : SUBSET NamesIn(map), visiting : SUBSET NamesIn(map),
                  order : Seq(NamesIn(map)), failed : BOOLEAN]

\* The loop over some names, given what visit does with each of them.
VisitAll(visit, search, names) ==
  LET after[i \in 0 .. Len(names)] == IF i = 0 THEN search ELSE visit[names[i]][after[i - 1]]
  IN after[Len(names)]

\* What visit does with a name.  Below it, depth more names may be visited one below the other:
\* they all differ, so that the depth never runs out before a name is met again.
visit(map) ==
  LET names == NamesIn(map)
      searches == Searches(map)
      below[depth \in 0 .. Cardinality(DOMAIN map)] ==
        [name \in names |-> [search \in searches |->
           IF search.failed \/ name \in search.visited THEN search
           ELSE IF name \in search.visiting \/ name \notin DOMAIN map \/ depth = 0
           THEN [search EXCEPT !.failed = TRUE]
           ELSE LET done == VisitAll(below[depth - 1], [search EXCEPT !.visiting = @ \cup {name}],
                                     map[name].dependsOn)
                IN IF done.failed THEN done ELSE AppendName(done, name)]]
  IN below[Cardinality(DOMAIN map)]

\* The outcome when the range over the map meets its keys in the order given.
resolveDependencies(map, keys) == VisitAll(visit(map), Unvisited, keys)

-----------------------------------------------------------------------------
(* The selectors.                                                          *)

roundRobin(apis, counter) == apis[(counter % Len(apis)) + 1]

WeightOf(api) == IF api.weight <= 0 THEN 1 ELSE api.weight

WeightsUpTo(apis, i) ==
  LET sum[j \in 0 .. Len(apis)] == IF j = 0 THEN 0 ELSE sum[j - 1] + WeightOf(apis[j])
  IN sum[i]

TotalWeight(apis) == WeightsUpTo(apis, Len(apis))

\* The first API whose weights, summed up to it, exceed the number drawn.
weighted(apis, draw) == Min({i \in DOMAIN apis : draw < WeightsUpTo(apis, i)})

\* The dependency selector repeats the order for ever.
dependencyNext(order, counter) == order[(counter % Len(order)) + 1]

\* What CreateAPISelector makes of the APIs: without any, one named "default" stands for the
\* configuration itself.  A resolver that fails has given the APIs their names all the same.
DefaultAPI == [name |-> "default", dependsOn |-> << >>, weight |-> 1, extractors |-> << >>]

Chained(apis) == \E i \in DOMAIN apis : apis[i].dependsOn # << >> \/ apis[i].extractors # << >>

CreateAPISelector(given, keys) ==
  LET apis == IF given = << >> THEN <<DefaultAPI>> ELSE given
      map == apiMap(apis)
      search == resolveDependencies(map, keys)
  IN IF Chained(apis) /\ ~search.failed
     THEN [mode |-> "dependency", apis |-> map, order |-> search.order]
     ELSE IF ~Chained(apis) /\ \E i \in DOMAIN apis : apis[i].weight > 1
     THEN [mode |-> "weighted", apis |-> apis, order |-> << >>]
     ELSE [mode |-> "roundRobin", apis |-> IF Chained(apis) THEN Named(apis) ELSE apis, order |-> << >>]

-----------------------------------------------------------------------------
(* The abstract view: a dependency graph can be executed if its names can  *)
(* be ranked so that everything ranks above what it depends on.            *)

Executable(map) ==
  /\ \A name \in DOMAIN map : DependenciesIn(map, name) \subseteq DOMAIN map
  /\ \E rank \in [DOMAIN map -> 1 .. Cardinality(DOMAIN map)] :
       \A name \in DOMAIN map : \A dep \in DependenciesIn(map, name) : rank[dep] < rank[name]

\* Over every list of APIs given: whatever order Go visits the map in, an order of execution
\* is found exactly if one exists, it names every API once and after all it depends on; if
\* none exists the APIs are called in turn, as if they did not depend on each other; and the
\* weighted selector calls an API in as many of the possible draws as its weight says.
SelectsSoundly(Lists) ==
  \A apis \in Lists :
    LET map == apiMap(apis) IN
    /\ \A keys \in SetToSeqs(DOMAIN map) :
         LET selector == CreateAPISelector(apis, keys)
             Place(name) == CHOOSE i \in DOMAIN selector.order : selector.order[i] = name
         IN IF apis # << >> /\ Chained(apis) /\ Executable(map)
            THEN /\ selector.mode = "dependency"
                 /\ Len(selector.order) = Cardinality(DOMAIN map)
                 /\ ToSet(selector.order) = DOMAIN map
                 /\ \A name \in DOMAIN map : \A dep \in DependenciesIn(map, name) : Place(dep) < Place(name)
                 /\ {dependencyNext(selector.order, n) : n \in 1 .. Len(selector.order)} = DOMAIN map
            ELSE selector.mode # "dependency"
    /\ apis # << >> => \A i \in DOMAIN apis :
         /\ Cardinality({n \in 0 .. TotalWeight(apis) - 1 : weighted(apis, n) = i}) = WeightOf(apis[i])
         /\ \E n \in 0 .. Len(apis) - 1 : roundRobin(apis, n) = apis[i]
=============================================================================
