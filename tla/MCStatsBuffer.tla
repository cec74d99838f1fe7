--------------------------- MODULE MCStatsBuffer ----------------------------
(* Small instance of StatsBuffer: two tasks, so that flushes of the first  *)
(* meet the second.                                                        *)
EXTENDS StatsBuffer
=============================================================================
