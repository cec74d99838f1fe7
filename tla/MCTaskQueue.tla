---------------------------- MODULE MCTaskQueue ----------------------------
(* Small instance of TaskQueue: two tasks, three concurrent callers.       *)
EXTENDS TaskQueue, TLC

Symmetry == Permutations(Tasks) \cup Permutations(Workers)
=============================================================================
