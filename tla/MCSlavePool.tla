---------------------------- MODULE MCSlavePool -----------------------------
(* Small instance of SlavePool: its slaves share nothing but the rounds.   *)
EXTENDS SlaveChoice

-----------------------------------------------------------------------------
(* Selection and splitting over lists of up to three slaves.               *)

Slave(id, state, load, region, cores, running) ==
  [id |-> id, state |-> state, load |-> load, region |-> region, cores |-> cores,
   labels |-> {<<"zone", region>>}, reports |-> load > 0, cpu |-> 45 * load,
   running |-> running, maxConcurrency |-> 2]
Of(id) == {Slave(id, x[1], x[2], x[3], x[4], x[5]) :
             x \in {<<"idle", 0, "north", 0, 0>>, <<"running", 1, "south", 4, 1>>,
                    <<"busy", 2, "north", 3, 2>>, <<"error", 0, "south", 1, 0>>}}
MCLists == {<< >>} \cup {<<a>> : a \in Of("a")} \cup {<<a, b>> : a \in Of("a"), b \in Of("b")}
           \cup {<<a, b, c>> : a \in Of("a"), b \in Of("b"), c \in Of("c")}
NoFilter == [includeIDs |-> {}, excludeIDs |-> {}, includeRegions |-> {}, excludeRegions |-> {},
             includeLabels |-> {}, excludeLabels |-> {}, requiredStates |-> {}, excludedStates |-> {},
             minCores |-> 0, maxCPU |-> 0, allowReuse |-> TRUE, preferIdle |-> FALSE]
MCSlaveFilters ==
  {NoFilter, [NoFilter EXCEPT !.includeIDs = {"a", "b"}, !.excludeIDs = {"b"}, !.preferIdle = TRUE],
   [NoFilter EXCEPT !.allowReuse = FALSE, !.maxCPU = 80],
   [NoFilter EXCEPT !.includeRegions = {"north"}, !.excludedStates = {"busy"}, !.preferIdle = TRUE],
   [NoFilter EXCEPT !.includeLabels = {<<"zone", "north">>}, !.minCores = 1],
   [NoFilter EXCEPT !.excludeRegions = {"north"}, !.requiredStates = {"idle", "error"}],
   [NoFilter EXCEPT !.excludeLabels = {<<"zone", "south">>}]}
NoWeights == [a \in {} |-> 0]
MCCounts == 0 .. 5
MCWeights == {NoWeights, [a \in {"a"} |-> 0], [b \in {"b"} |-> 2]}
MCIDs == SUBSET {"a", "c"}
=============================================================================
