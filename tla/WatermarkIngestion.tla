------------------------ MODULE WatermarkIngestion ------------------------
(***************************************************************************)
(* Incremental extraction of one SQL table into an append-only Bronze      *)
(* table (src/ingestion/batch/sql_ingestion.py), with the run records of   *)
(* bronze.ingestion_metadata (src/ingestion/metadata/metadata_logger.py).  *)
(*                                                                         *)
(* A job reads the highest successful watermark, registers a RUNNING       *)
(* record, reads the partitions of the source with one query each, appends *)
(* what it read and closes its record.  The source table is external: it   *)
(* keeps changing while it is read, and a transaction may become visible   *)
(* after later-stamped ones.                                               *)
(***************************************************************************)
EXTENDS Integers, Sequences, FiniteSets

CONSTANTS
  Rows,         \* primary keys of the source table
  Partitions,   \* ranges of partition_column, one JDBC query each
  PartitionOf,  \* the range each row falls in
  Jobs,         \* processes that can run the ingestion
  Strategy,     \* each job's ingestion.strategy: "incremental" or "full_refresh"
  ExecutorLoss, \* can cached partitions be lost and read again?
  Endings,      \* how end_run comes out: its row is merged, or refused
  Tick,         \* source clock ticks per unit the watermark string keeps
  MaxLag,       \* how much older than the clock a new stamp can be
  MaxTime,      \* bound on the source clock
  MaxRuns,      \* bound on registered runs
  MaxFailures   \* bound on exceptions and lost clusters

ASSUME PartitionAssumption == PartitionOf \in [Rows -> Partitions]
ASSUME StrategyAssumption  == Strategy \in [Jobs -> {"incremental", "full_refresh"}]
ASSUME LossAssumption      == ExecutorLoss \in BOOLEAN
ASSUME EndingAssumption    == Endings \subseteq {"merged", "refused"}
ASSUME TickAssumption      == Tick \in Nat \ {0}
ASSUME BoundAssumption     ==
  MaxLag \in Nat /\ MaxTime \in Nat /\ MaxRuns \in Nat /\ MaxFailures \in Nat

VARIABLES
  clock,    \* the source's clock
  source,   \* updated_at of each row's committed version; 0: no such row
  raced,    \* versions whose commit overtook the watermark order (history)
  bronze,   \* appended rows: [row, ts, run]
  runs,     \* ingestion_metadata, in start_run order
  pc,       \* where each job is
  run,      \* the job's run_id, an index of runs
  todo,     \* partitions not yet read
  fetched,  \* versions read so far: [row, ts]
  verdict,  \* what the finally block will report: [status, watermark]
  failures  \* exceptions and losses so far

vars ==
  <<clock, source, raced, bronze, runs, pc, run, todo, fetched, verdict, failures>>

NoWatermark == -1   \* watermark_value = None

Version  == [row : Rows, ts : Nat]
Metadata ==
  [status : {"RUNNING", "SUCCESS", "FAILED"}, watermark : Nat, asof : Nat]
Verdicts == [status : {"SUCCESS", "FAILED"}, watermark : Nat \cup {NoWatermark}]

Verdict(status, watermark) == [status |-> status, watermark |-> watermark]
Unfinished == Verdict("FAILED", NoWatermark)

-----------------------------------------------------------------------------
(* metadata_logger                                                         *)

\* Variant: the status filter is missing.
WatermarksOfAll == {runs[i].watermark : i \in DOMAIN runs}

(* The watermarks get_last_watermark takes the MAX of.                     *)
Watermarks == {runs[i].watermark : i \in {k \in DOMAIN runs : runs[k].status = "SUCCESS"}}

(* COALESCE(MAX(watermark_value), initial_value), as the set of its one     *)
(* value; 0 is the initial value.                                          *)
LastWatermark ==
  {w \in Watermarks \cup {0} : \A v \in Watermarks : v <= w}

RunRecord(status, watermark, asof) ==
  [status |-> status, watermark |-> watermark, asof |-> asof]

\* Variant: the string is rounded, not cut.
AsWatermarkRounded(ts) == ((ts + Tick \div 2) \div Tick) * Tick

(* CAST of a timestamp to the watermark string: digits beyond the          *)
(* microsecond are cut off.                                                *)
AsWatermark(ts) == (ts \div Tick) * Tick

(* end_run: COALESCE(src.watermark_value, target.watermark_value).         *)
EndRecord(old, v) ==
  [old EXCEPT !.status = v.status,
              !.watermark = IF v.watermark = NoWatermark THEN @ ELSE v.watermark]

-----------------------------------------------------------------------------
Init ==
  /\ clock   = 0
  /\ source  = [r \in Rows |-> 0]
  /\ raced   = {}
  /\ bronze  = {}
  /\ runs    = <<>>
  /\ pc      = [j \in Jobs |-> "idle"]
  /\ run     = [j \in Jobs |-> 0]
  /\ todo    = [j \in Jobs |-> {}]
  /\ fetched = [j \in Jobs |-> {}]
  /\ verdict = [j \in Jobs |-> Unfinished]
  /\ failures = 0

(* A read is torn for r: r's partition has been read, another has not.     *)
TornRead(r) ==
  \E j \in Jobs : pc[j] = "read" /\ todo[j] # {} /\ PartitionOf[r] \notin todo[j]

(* An application commits a version of row r, stamped by its transaction.  *)
Commit(r) ==
  /\ clock < MaxTime
  /\ clock' = clock + 1
  /\ \E lag \in 0..MaxLag :
       /\ clock + 1 - lag > source[r]
       /\ source' = [source EXCEPT ![r] = clock + 1 - lag]
       /\ raced'  = IF lag > 0 \/ TornRead(r)
                    THEN raced \cup {[row |-> r, ts |-> clock + 1 - lag]}
                    ELSE raced
  /\ UNCHANGED <<bronze, runs, pc, run, todo, fetched, verdict, failures>>

(***************************************************************************)
(* get_last_watermark and start_run.  No other process reads a RUNNING     *)
(* record, so the two statements are one step.                             *)
(***************************************************************************)
Start(j) ==
  /\ pc[j] = "idle"
  /\ Len(runs) < MaxRuns
  /\ \E w \in IF Strategy[j] = "full_refresh" THEN {0} ELSE LastWatermark :
       runs' = Append(runs, RunRecord("RUNNING", w, clock))
  /\ run'     = [run EXCEPT ![j] = Len(runs) + 1]
  /\ todo'    = [todo EXCEPT ![j] = Partitions]
  /\ fetched' = [fetched EXCEPT ![j] = {}]
  /\ verdict' = [verdict EXCEPT ![j] = Unfinished]
  /\ pc'      = [pc EXCEPT ![j] = "read"]
  /\ UNCHANGED <<clock, source, raced, bronze, failures>>

\* Variant: the filter is >=.
InclusiveQuery(j, p) ==
  {[row |-> r, ts |-> source[r]] :
     r \in {q \in Rows : PartitionOf[q] = p /\ source[q] >= 1
                            /\ source[q] >= runs[run[j]].watermark}}

(* SELECT ... WHERE updated_at > last_watermark, over one partition; a full *)
(* refresh starts at 0 and so has no filter.                               *)
Query(j, p) ==
  {[row |-> r, ts |-> source[r]] :
     r \in {q \in Rows : PartitionOf[q] = p /\ source[q] > runs[run[j]].watermark}}

(* One of the parallel JDBC queries; nothing orders them.                  *)
ReadPartition(j) ==
  /\ pc[j] = "read"
  /\ \E p \in todo[j] :
       /\ fetched' = [fetched EXCEPT ![j] = @ \cup Query(j, p)]
       /\ todo'    = [todo EXCEPT ![j] = @ \ {p}]
  /\ UNCHANGED <<clock, source, raced, bronze, runs, pc, run, verdict, failures>>

(* COUNT and MAX(updated_at) of what was read.  With no row the run is     *)
(* over and keeps the watermark it started from.                           *)
Aggregate(j) ==
  /\ pc[j] = "read"
  /\ todo[j] = {}
  /\ \/ /\ fetched[j] = {}
        /\ verdict' = [verdict EXCEPT ![j] = Verdict("SUCCESS", runs[run[j]].watermark)]
        /\ pc'      = [pc EXCEPT ![j] = "end"]
     \/ /\ fetched[j] # {}
        /\ \E newest \in {v \in fetched[j] : \A u \in fetched[j] : u.ts <= v.ts} :
             verdict' = [verdict EXCEPT ![j].watermark =
                           IF Strategy[j] = "incremental" THEN AsWatermark(newest.ts)
                                                          ELSE NoWatermark]
        /\ pc' = [pc EXCEPT ![j] = "append"]
  /\ UNCHANGED <<clock, source, raced, bronze, runs, run, todo, fetched, failures>>

\* Variant: only the partition read again is written.
RecomputeOnly(j) ==
  /\ ExecutorLoss
  /\ failures < MaxFailures
  /\ pc[j] = "append"
  /\ \E p \in Partitions : fetched' = [fetched EXCEPT ![j] = Query(j, p)]
  /\ failures' = failures + 1
  /\ UNCHANGED <<clock, source, raced, bronze, runs, pc, run, todo, verdict>>

(* A lost executor takes cached partitions with it: the write reads them   *)
(* from the source again, after the watermark was computed.                *)
Recompute(j) ==
  /\ ExecutorLoss
  /\ failures < MaxFailures
  /\ pc[j] = "append"
  /\ \E p \in Partitions :
       fetched' = [fetched EXCEPT ![j] =
                     {v \in @ : PartitionOf[v.row] # p} \cup Query(j, p)]
  /\ failures' = failures + 1
  /\ UNCHANGED <<clock, source, raced, bronze, runs, pc, run, todo, verdict>>

Appended(j) ==
  bronze \cup {[row |-> v.row, ts |-> v.ts, run |-> run[j]] : v \in fetched[j]}

(* One Delta commit appends everything that was read.                      *)
AppendBronze(j) ==
  /\ pc[j] = "append"
  /\ bronze'  = Appended(j)
  /\ verdict' = [verdict EXCEPT ![j].status = "SUCCESS"]
  /\ fetched' = [fetched EXCEPT ![j] = {}]
  /\ pc'      = [pc EXCEPT ![j] = "end"]
  /\ UNCHANGED <<clock, source, raced, runs, run, todo, failures>>

(* The try block raises: the verdict stays FAILED, the watermark computed  *)
(* so far is kept, and an append may have been committed all the same.     *)
Fail(j) ==
  /\ failures < MaxFailures
  /\ \/ /\ pc[j] = "read"
        /\ UNCHANGED bronze
     \/ /\ pc[j] = "append"
        /\ bronze' \in {bronze, Appended(j)}
  /\ pc'       = [pc EXCEPT ![j] = "end"]
  /\ fetched'  = [fetched EXCEPT ![j] = {}]
  /\ todo'     = [todo EXCEPT ![j] = {}]
  /\ failures' = failures + 1
  /\ UNCHANGED <<clock, source, raced, runs, run, verdict>>

(* The job's local variables go with its process.                          *)
Forget(j) ==
  /\ pc'      = [pc EXCEPT ![j] = "idle"]
  /\ run'     = [run EXCEPT ![j] = 0]
  /\ todo'    = [todo EXCEPT ![j] = {}]
  /\ fetched' = [fetched EXCEPT ![j] = {}]
  /\ verdict' = [verdict EXCEPT ![j] = Unfinished]

\* Variant: the record is closed as it is reported, whatever the outcome.
EndRunAsSuccess(j) ==
  /\ pc[j] = "end" /\ "merged" \in Endings
  /\ runs' = [runs EXCEPT ![run[j]] = EndRecord(@, [verdict[j] EXCEPT !.status = "SUCCESS"])]
  /\ Forget(j)
  /\ UNCHANGED <<clock, source, raced, bronze, failures>>

(* The finally block: end_run merges the verdict into the run's record.    *)
EndRun(j) ==
  /\ pc[j] = "end" /\ "merged" \in Endings
  /\ runs' = [runs EXCEPT ![run[j]] = EndRecord(@, verdict[j])]
  /\ Forget(j)
  /\ UNCHANGED <<clock, source, raced, bronze, failures>>

(* createDataFrame verifies end_run's row against METADATA_SCHEMA, where   *)
(* source_id and run_start_ts, None in that row, are not nullable: it      *)
(* raises, the job fails after its append and the record stays RUNNING.    *)
EndRefused(j) ==
  /\ pc[j] = "end" /\ "refused" \in Endings
  /\ Forget(j)
  /\ UNCHANGED <<clock, source, raced, bronze, runs, failures>>

(* The cluster is lost or the task times out: the record stays RUNNING.    *)
Crash(j) ==
  /\ failures < MaxFailures
  /\ pc[j] # "idle"
  /\ failures' = failures + 1
  /\ Forget(j)
  /\ UNCHANGED <<clock, source, raced, bronze, runs>>

(* MaxRuns is a bound of the model: past it the schedule only idles.       *)
Idle ==
  /\ Len(runs) = MaxRuns
  /\ \A j \in Jobs : pc[j] = "idle"
  /\ UNCHANGED vars

JobStep(j) ==
  \/ Start(j) \/ ReadPartition(j) \/ Aggregate(j) \/ Recompute(j) \/ AppendBronze(j)
  \/ Fail(j) \/ EndRun(j) \/ EndRefused(j) \/ Crash(j)

Next ==
  \/ \E r \in Rows : Commit(r)
  \/ \E j \in Jobs : JobStep(j)
  \/ Idle

Spec == Init /\ [][Next]_vars

-----------------------------------------------------------------------------
InBronze(r) == \E b \in bronze : b.row = r /\ b.ts = source[r]
Raced(r)    == [row |-> r, ts |-> source[r]] \in raced

(* Type correctness of the source, the Bronze table, the run records and   *)
(* every job's local state.                                                *)
TypeOK ==
  /\ clock    \in Nat
  /\ source   \in [Rows -> Nat]
  /\ raced    \subseteq Version
  /\ bronze   \subseteq [row : Rows, ts : Nat, run : Nat]
  /\ runs     \in Seq(Metadata)
  /\ pc       \in [Jobs -> {"idle", "read", "append", "end"}]
  /\ run      \in [Jobs -> Nat]
  /\ todo     \in [Jobs -> SUBSET Partitions]
  /\ fetched  \in [Jobs -> SUBSET Version]
  /\ verdict  \in [Jobs -> Verdicts]
  /\ failures \in Nat

(* No update is skipped: whatever crashed, failed, overlapped or was read  *)
(* twice, a current version at or below a successful run's watermark, which *)
(* no later run asks for again, is in Bronze, unless its commit overtook   *)
(* the order of stamps or fell into a partitioned read.                    *)
NoSkippedVersion ==
  \A w \in Watermarks, r \in Rows :
    source[r] # 0 /\ source[r] <= w /\ ~Raced(r) => InBronze(r)

(* A run recorded as SUCCESS is complete: every version committed before   *)
(* it started, and still current, is in Bronze.                            *)
SuccessIsComplete ==
  \A i \in DOMAIN runs, r \in Rows :
    runs[i].status = "SUCCESS" /\ source[r] # 0 /\ source[r] <= runs[i].asof /\ ~Raced(r)
      => InBronze(r)

(* Bronze is append-only and Silver removes duplicates, but a duplicate    *)
(* needs a run that did not succeed: two successful incremental runs never *)
(* both appended the same version.  (One job, no executor lost, stamps no  *)
(* finer than the watermark.)                                              *)
OneSuccessfulCopy ==
  \A b, c \in bronze :
    /\ b.row = c.row /\ b.ts = c.ts
    /\ runs[b.run].status = "SUCCESS" /\ runs[c.run].status = "SUCCESS"
    => b.run = c.run

(* "Updates the metadata record with final status and row counts.  Uses    *)
(* Delta MERGE to update the existing RUNNING record" (end_run's docstring *)
(* in metadata_logger.py): where nothing fails, a record that is RUNNING   *)
(* belongs to a run that still runs.                                       *)
FinishedRunsAreClosed ==
  failures = 0 =>
    \A i \in DOMAIN runs : runs[i].status = "RUNNING" => \E j \in Jobs : run[j] = i
=============================================================================
