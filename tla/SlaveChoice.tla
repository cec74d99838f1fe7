---------------------------- MODULE SlaveChoice -----------------------------
(***************************************************************************)
(* The pool and what the master chooses of it: the slaves of SlavePool     *)
(* with the selectors, filters and splitters of Selection.                 *)
(***************************************************************************)
EXTENDS SlavePool, Sequences

CONSTANTS
  Lists,        \* the slaves on offer
  Counts,       \* how many slaves or workers a task asks for
  Weights,      \* weights of slaves, by ID
  IDs,          \* the slaves a start request names
  SlaveFilters

S == INSTANCE Selection

AllSelectAndSplit == S!SelectsSlaves(Lists, Counts, Weights, IDs, SlaveFilters)

\* Selectors, filters and splitters keep their promises: see SelectsSlaves in Selection.tla.
\* The master's selector, which sees the pool, offers just the slaves that SlavePool does.
SelectsSlaves ==
  /\ AllSelectAndSplit
  /\ \A s \in Slaves : Registered(s) =>
       \A pool \in {slaves \in Lists : Len(slaves) = 1 /\ slaves[1].state = entry[s]} :
         \A chosen \in S!Select(pool, 1) : chosen = pool <=> entry[s] # "error"
=============================================================================
