----------------------- MODULE MCWatermarkIngestion -----------------------
(* Small instances of WatermarkIngestion. *)
EXTENDS WatermarkIngestion, TLC

CONSTANTS r1, r2, p1, p2, j1, j2

TwoPartitions == r1 :> p1 @@ r2 :> p2

Incremental == [j \in Jobs |-> "incremental"]
\* j2 reloads the table while j1 follows its schedule.
WithReload  == [j \in Jobs |-> IF j = j2 THEN "full_refresh" ELSE "incremental"]
=============================================================================
