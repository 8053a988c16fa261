-------------------------- MODULE MCBatchLearning --------------------------
(***************************************************************************)
(* Instances of BatchLearning for TLC.                                     *)
(***************************************************************************)
EXTENDS BatchLearning

CONSTANTS r1, r2, m1, m2, retry, stop

DraftsPerRun == [r \in Learners |-> IF r = r1 THEN 2 ELSE 1]

(* Either the tables are empty, or one merchant has made a run before.      *)
NothingOrOneRun == {{}, {<<m1, "redis">>}}
=============================================================================
