---------------------------- MODULE DailyPipeline ----------------------------
(***************************************************************************)
(* The tasks ingest_azure_sql_sales and silver_clean_sales of the daily    *)
(* batch pipeline (databricks.yml): WatermarkIngestion and BronzeToSilver  *)
(* joined at the Bronze table of the sales orders, under the schedule that *)
(* the pipeline gives them.                                                *)
(*                                                                         *)
(* One run of the pipeline at a time, cleaning after a successful ingestion *)
(* only, each task retried when it fails.  Commits to the source and the   *)
(* failures of both tasks come as in the two modules.                      *)
(***************************************************************************)
EXTENDS WatermarkIngestion, BronzeToSilver

(* max_concurrent_runs: 1.  The job's table is the source's, read through  *)
(* Spark, whose timestamps keep a microsecond.                             *)
ASSUME PipelineAssumption ==
  /\ \E j \in Jobs : Jobs = {j}
  /\ Keys      = Rows
  /\ Versions  = [row : Rows, ts : 1..MaxTime]
  /\ KeyOf     = [v \in Versions |-> v.row]
  /\ UpdatedAt = [v \in Versions |-> v.ts \div Tick]
  /\ Extracts  = SUBSET Versions

VARIABLES
  task,    \* the task under way, or the next to be run
  served   \* start times of the successful runs that a finished cleaning followed (history)

pipelineVars == <<vars, cleanVars, task, served>>

Tasks == {"ingest", "clean"}

-----------------------------------------------------------------------------
PipelineInit ==
  /\ Init
  /\ CleanInit
  /\ task = "ingest"
  /\ served = {}

\* Variant: the append is not stamped later than the last cleaning.
BeginWriteAnyTime(j) ==
  /\ pc[j] = "append"
  /\ BeginAppend
  /\ UNCHANGED vars

(* current_timestamp() of the append.  Between it and the last cleaning    *)
(* lies the start of a task, far more than the microsecond a stamp keeps.  *)
BeginWrite(j) ==
  /\ pc[j] = "append"
  /\ BeginAppend
  /\ wall' > wall
  /\ UNCHANGED vars

(* The commit of the append makes what was fetched visible.                *)
Write(j) == AppendBronze(j) /\ Land(fetched[j])

Abandon == IF writing = 0 THEN UNCHANGED cleanVars ELSE AbandonAppend

(* An exception in the try block, before or after the append's commit.     *)
FailIngest(j) ==
  /\ Fail(j)
  /\ \/ bronze' = bronze /\ Abandon
     \/ pc[j] = "append" /\ bronze' = Appended(j) /\ Land(fetched[j])

KillIngest(j) == Crash(j) /\ Abandon

(* The ingestion ends.  Cleaning is next if it succeeded, and if the other *)
(* tables of the source and the quality check on Bronze did.               *)
EndIngest(j) ==
  /\ \/ EndRun(j) /\ verdict[j].status = "SUCCESS" /\ task' \in Tasks
     \/ EndRun(j) /\ verdict[j].status = "FAILED"  /\ task' = "ingest"
     \/ EndRefused(j) /\ task' = "ingest"
  /\ UNCHANGED cleanVars

IngestTask(j) ==
  /\ task = "ingest"
  /\ \/ /\ \/ (Start(j) \/ ReadPartition(j) \/ Aggregate(j) \/ Recompute(j)) /\ UNCHANGED cleanVars
           \/ BeginWrite(j) \/ Write(j) \/ FailIngest(j) \/ KillIngest(j)
        /\ UNCHANGED task
     \/ EndIngest(j)
  /\ UNCHANGED served

Succeeded == {runs[i].asof : i \in {k \in DOMAIN runs : runs[k].status = "SUCCESS"}}

\* Variant: the cleaning does not wait for the ingestion.
CleanTaskAnyTime ==
  /\ CleanStep
  /\ UNCHANGED <<vars, task, served>>

(* The cleaning runs; when it is over, so is the day.                      *)
CleanTask ==
  /\ task = "clean"
  /\ CleanStep
  /\ IF at' = "idle" THEN task' = "ingest" /\ served' = Succeeded
                     ELSE UNCHANGED <<task, served>>
  /\ UNCHANGED vars

(* A killed cleaning is retried, until the pipeline gives up for the day.  *)
KillClean ==
  /\ task = "clean"
  /\ Kill
  /\ task' \in Tasks
  /\ UNCHANGED <<vars, served>>

CommitSource(r) == Commit(r) /\ UNCHANGED <<cleanVars, task, served>>

PipelineIdle == task = "ingest" /\ Idle /\ UNCHANGED pipelineVars

PipelineNext ==
  \/ \E r \in Rows : CommitSource(r)
  \/ \E j \in Jobs : IngestTask(j)
  \/ CleanTask \/ KillClean \/ PipelineIdle

PipelineSpec == PipelineInit /\ [][PipelineNext]_pipelineVars

-----------------------------------------------------------------------------
(* Silver shows the current version of a row, or one of the same           *)
(* microsecond, or such a version is reported.                             *)
ShowsCurrent(r) ==
  \E v \in Versions :
    /\ v.row = r /\ UpdatedAt[v] = source[r] \div Tick
    /\ silver[r].version = v \/ (~Valid[v] /\ Told(v))

(* From the source to Silver: the version of a row that was committed      *)
(* before the start of a successful ingestion, and is still current when a *)
(* finished cleaning has followed, is the one Silver shows or a report     *)
(* names, whatever failed, was killed or retried in between; unless its    *)
(* commit overtook the order of stamps or fell into a partitioned read.    *)
EverySuccessIsServed ==
  \A t \in served, r \in Rows :
    source[r] # 0 /\ source[r] <= t /\ ~Raced(r) => ShowsCurrent(r)

(* Silver's watermark is the time of its last MERGE, a row's stamp that of *)
(* the start of its append.  Nothing compares the two, but under the       *)
(* schedule no row is at or below the watermark before a cleaning has read *)
(* it, whatever fails, is killed or retried in between: the rows that the  *)
(* promises of BronzeToSilver except do not occur.                         *)
NothingOvertaken == late = {}
=============================================================================
