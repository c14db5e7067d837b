------------------------- MODULE MCRoadblockAttempt -------------------------
(* TLC instance of RoadblockAttempt: roadblocks that share a seed, seeds   *)
(* of one roadblock, and the direct handler with two roadblocks.           *)
EXTENDS RoadblockAttempt

CONSTANTS k1, k2, s1, s2

(* s1 descends from s2, which may be gone.                                 *)
MCOrigins == [s \in {s1, s2} |-> IF s = s1 THEN {s1, s2} ELSE {s2}]

MCScopes ==
    {[keys |-> {k1, k2}, seeds |-> {s2}, direct |-> {FALSE}],
     [keys |-> {k1}, seeds |-> {s1, s2}, direct |-> {FALSE}],
     [keys |-> {k1, k2}, seeds |-> {}, direct |-> {TRUE}],
     [keys |-> {k1}, seeds |-> {s1}, direct |-> BOOLEAN]}
=============================================================================
