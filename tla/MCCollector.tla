----------------------------- MODULE MCCollector ----------------------------
(* Small instance of Collector: two workers, and a channel of one.         *)
EXTENDS Collector
=============================================================================
