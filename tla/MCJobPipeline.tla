--------------------------- MODULE MCJobPipeline ---------------------------
(* Small instances of JobPipeline for TLC. *)
EXTENDS JobPipeline

CONSTANTS j1, j2, j3

\* j1 carries its own candidates, yet hashes to the key of the pool request j2.
TwoJobs   == {j1, j2}
ThreeJobs == {j1, j2, j3}
OneLive   == {j1}

OneKey  == [j \in Jobs |-> 1]
TwoKeys == [j \in Jobs |-> IF j = j3 THEN 2 ELSE 1]
=============================================================================
