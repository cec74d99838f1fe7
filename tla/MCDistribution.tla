--------------------------- MODULE MCDistribution ---------------------------
(* Small instance of Distribution: two idle slaves.                        *)
EXTENDS Distribution

MCSlave(id, region) == [id |-> id, region |-> region, state |-> "idle", load |-> 0]
MCPool == <<MCSlave("s1", "north"), MCSlave("s2", "south")>>
=============================================================================
