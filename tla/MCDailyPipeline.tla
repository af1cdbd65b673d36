-------------------------- MODULE MCDailyPipeline --------------------------
(* A small instance of DailyPipeline: the versions of one moment fail the   *)
(* checks.                                                                 *)
EXTENDS DailyPipeline

CONSTANTS r1, r2, p1, p2, j1

TwoPartitions == [r \in Rows |-> IF r = r1 THEN p1 ELSE p2]
Incremental   == [j \in Jobs |-> "incremental"]
OrderVersions == [row : Rows, ts : 1..MaxTime]
RowOfVersion  == [v \in OrderVersions |-> v.row]
Microseconds  == [v \in OrderVersions |-> v.ts \div Tick]
Checks        == [v \in OrderVersions |-> v.ts # 2]
AnyRows       == SUBSET OrderVersions
=============================================================================
