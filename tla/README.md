# A verification development for the AgenticAI lakehouse

TLA+ models of the protocol code of this repository, the TLC runs that check
them on small instances, and TLAPS proofs of the properties that matter most for
every instance. Paths below are relative to the repository (`src/src/...` is the
Python code); line numbers are those of the commit modelled.

## 1. The system

A Databricks lakehouse: batch and streaming ingestion into Bronze Delta tables,
cleaning into Silver, star schema in Gold, and agents that act on the result.
Most processes are jobs of `databricks.yml`; they communicate only through Delta
tables, each statement on one table is an atomic commit, and no statement spans
two tables. So the hard behaviour is nearly always of one kind: **what another
process does, or a kill, between two statements of one function**. The one server
is the Gold API, whose mounted NL router shares an agent, a cache and an audit
buffer between its threads.

### Inventory

| Component | State it keeps | Operations | Interacts with | Hard behaviour | What makes it correct |
|---|---|---|---|---|---|
| Orchestrator agent (`agents/orchestrator_agent.py`) | `orchestrator_events.status`, `orchestrator_log`, local batch of a cycle | poll, claim, plan, dispatch, update status, log | all sub-agents (in process), upstream jobs (INSERT of events) | overlapping cycles, kill between statements, lost answers, priority batches | at-most-once handling, final verdicts, audit agrees with the queue, every event settles |
| SQL ingestion (`ingestion/batch/sql_ingestion.py`, `ingestion/metadata/metadata_logger.py`) | `bronze.<entity>`, `bronze.ingestion_metadata` | read watermark, start_run, parallel JDBC reads, aggregate, append, end_run | source database, retries of the task | source changes while read, failure after the append, overlapping runs, lost cached blocks | no update behind the watermark is missing; success means complete; duplicates need a failure |
| Debezium CDC (`ingestion/cdc/debezium_cdc_ingestion.py`) | Bronze image, stream checkpoint | first start, plan batch, MERGE, commit, restart | Event Hubs, Debezium | replay, ordering across partitions, ties | image of a consistent prefix, no step back, catches up |
| Silver to Gold (`transformation/silver_to_gold.py`) | `dim_customer` (SCD2), `dim_product`, `fact_sales` | expire, insert, merge, read max date, append | Silver tables | killed between expire and insert, Silver moving under the build, day-granular watermark | one current version, disjoint validity, facts once with resolvable keys |
| Bronze to Silver (`cleaning/*.py`) | Silver tables, quarantine | watermark, dedup, validate, MERGE, quarantine | Bronze writers | rows ingested during the run, kill before the quarantine write | nothing promoted twice or lost |
| GDPR erasure (`agents/gdpr_rtbf_agent.py`) | every table with personal data, erasure log | discover, erase per table, VACUUM, log | all pipelines, weekly maintenance | failure between tables, log written last, pipelines re-propagating | erased data stays away except in the ways named; the log, if any, is true |
| DQ remediation (`agents/dq_remediation_agent.py`) | target tables, quarantine, action log | load failed checks, decide, impute, coerce, deduplicate, quarantine and delete, log | writers of the tables | rows changing between append and DELETE, failed strategies, repeated runs | no row lost, a repeated decision changes nothing, the log is true |
| NL to SQL (`agents/nl_to_sql_agent.py`), mounted by the Gold API | agent, schema cache, audit buffer | create the agent, build context, ask, validate, execute, audit, refresh, flush | SQL warehouse, Unity Catalog | two threads making an agent, refreshes beside rebuilds, entries added during a flush | a refresh takes effect; what was executed is audited once |
| REST, OData ingestion (`ingestion/rest`, `ingestion/odata`) | Bronze, run metadata | paged fetch, append, watermark | remote API | collection changing between pages, failures, refused records | nothing at or below the watermark is missed, a run comes to its end |
| CDF propagation (`ingestion/cdf/cdf_propagation.py`) | version checkpoint, Silver | two MERGEs per range, checkpoint | upstream table history | replay of a range, first run | not modelled, see section 6 |
| Autoloader, Event Hubs streaming | engine checkpoint | append-only streams | engine | replay | engine's guarantee |
| DLT pipelines (`dlt/*.py`) | declared tables | none of its own | DLT engine | – | declarative |
| Data quality checks, alerting (`quality/*.py`) | count cache | checks, gate | pipelines | cache keyed by `id(df)` | gate sees the counts of its own frame |
| ML (`ml/*.py`) | model registry | train, register, promote, infer, drift | orchestrator | two training runs promoting | what is promoted is what was evaluated |
| Gold API (`api/gold_api.py`) | JWKS cache, connection | read-only queries, mounts the NL router (:111-112) | warehouse | – | – |
| OpenLineage (`lineage/openlineage_emitter.py`) | none | START, COMPLETE, FAIL events | cleaning job | – | – |
| Governance, monitoring, utilities, seed script, Terraform, `databricks.yml` | none, or declarative | DDL by hand; `run_maintenance` (in GdprErasure) | – | – | – |

`PROJECT.json` lists each with its files and status, and `hazards` each hard
behaviour at its line.

### Deployment facts the models rely on

* `databricks.yml:706-708,757-758`: the orchestrator is scheduled every 15
  minutes, `max_concurrent_runs: 1`, killed after 600 s, retried once. An
  on-demand run (`main`, one-shot mode) is a second runner.
* `databricks.yml:323-324`: the CDC task has `max_retries: -1` and no timeout: it
  is always restarted.
* `databricks.yml:605,640-641`: DQ remediation runs daily, one run at a time, 3600 s,
  retried once. `--primary-keys` does not exist in `main`: DEDUPLICATE always uses
  `order_id` and `updated_at`.
* `databricks.yml:472-504`: the OData job runs one incremental source. No job runs
  the REST ingestion; its module is called by hand.
* `flush_audit_log_to_delta` is called by nobody in the repository; its docstring
  names a notebook's end or the API's shutdown. `enable_audit_log` defaults to true.
* The daily pipeline retries the SQL ingestion tasks; a retry can start while the
  driver it replaces is still writing (WatermarkReload; DailyPipeline leaves it out).
* `databricks.yml:64,113-131`: one run of the daily pipeline at a time; the cleaning
  starts after the ingestion and the quality check on Bronze have succeeded.

## 2. Modules

```
EventQueue         <---refines--- Orchestrator <--- MCOrchestrator, OrchestratorProofs
WatermarkIngestion <--- MCWatermarkIngestion, WatermarkProofs
BronzeToSilver     <--- MCBronzeToSilver, PipelineProofs
WatermarkIngestion, BronzeToSilver <--- DailyPipeline <--- MCDailyPipeline, PipelineProofs
Replica            <---refines--- CdcMerge     <--- MCCdcMerge, IngestionProofs
GoldBuild          <--- MCGoldBuild, GoldProofs
GdprErasure        <--- MCGdprErasure, GdprProofs
DqRemediation      <--- MCDqRemediation, DqProofs
PagedIngestion     <--- MCPagedIngestion, IngestionProofs
NlToSql            <--- MCNlToSql, NlProofs
```

Each component module is parameterised by CONSTANTS with named assumptions, has
one action per step between two visible statements, and declares no recursive
operator. The definitions marked `\* Variant:` are the component with one
plausible mistake; nothing uses them, they document which mistake each property
would expose (`mutants` in `PROJECT.json`).

### Orchestrator

One action per Delta statement or external call of `run_orchestration_cycle`.
`status` is the events table, `log` the audit table; `pc`, `todo`, `cur`, `plan`,
`result`, `client` are the locals of a cycle; `effects` counts what sub-agents
changed outside.

| Action | Code |
|---|---|
| `Raise` | `main` one-shot mode (905-940), upstream jobs |
| `Poll` | the SELECT with its ORDER BY and LIMIT, and the client (683-735) |
| `ParseFailure` | `json.loads` of the payload, outside every `try` (741) |
| `Claim` | UPDATE to IN_PROGRESS, and the unknown-type branch (755, 762-780) |
| `CallPlanner`, `RuleBasedDispatch` | `_call_planner`, `_rule_based_dispatch` |
| `Execute` | the `_run_*` wrappers, as their sets of possible results |
| `UpdateEventStatus`, `WriteLog` | the two statements of `_finalise` (846, 848-871) |
| `Crash` | the 600 s cap, a lost driver, a statement that raises |

Abstracted: the model's text, prompts, error wording, and the sub-agents' inner
steps. A payload is `ok`, `long` (its truncation to 4000 characters no longer
parses, so the planner fails) or `malformed`. `_run_dq_remediation` and
`_run_gdpr_rtbf` import names their modules do not define, so their only outcome
is FAILED with no effect; the model says what the code does.

`EventQueue` is the abstract queue: taken once, at most one outside effect while
taken, one verdict, audit after verdict. A single runner implements it through
the mapping "performed = events with an effect, audited = events with a log
row"; an event may stay taken for ever, because a killed cycle leaves it
IN_PROGRESS and nothing polls such a row.

### WatermarkIngestion

One entity of one source. `source` maps a row to the `updated_at` of its
committed version; `Commit` is external and may become visible later than its
stamp (`MaxLag`). `raced` is a history variable: versions whose commit overtook
the order of stamps, or fell between two partition queries of a run. Such a
version can be skipped by any watermark on `updated_at`; the properties exempt
exactly those. `runs` is `ingestion_metadata` (`status`, `watermark_value`, and
`asof`, the source clock at the start, a history field). Actions: `Start`
(last watermark and `start_run`), `ReadPartition` (one JDBC query),
`Aggregate` (count and maximum, truncated to the string's precision),
`Recompute` (a lost executor's cached blocks are read again), `AppendBronze`,
`Fail` (an exception; an append may have committed), `EndRun` (the `finally`
block with its COALESCE), `EndRefused` (the same block as `createDataFrame` makes
it), `Crash` (record stays RUNNING).

`Endings` says how `end_run` comes out. Its row holds None in two columns that
`METADATA_SCHEMA` declares not nullable, so as written it is always refused: the
record stays RUNNING, no watermark is ever kept and each run starts from the
beginning (WatermarkRecord). The watermark protocol the function implements is
the one with `"merged"`, which the other properties and the theorems need to say
anything; with both endings allowed (WatermarkReload, DailyServed) refusals may come at any
time, as any failure of that statement would. The theorems hold for any set of
endings.

### CdcMerge

`feed` is the order Debezium published in; `start`, `done`, `ahead` are the stream's
first, committed and logged offsets per partition; `bronze` keeps per key the event
whose image it shows. `PlanBatch` logs end offsets, `Merge` is `_process_batch`
(newest event per key by `_cdc_event_ts`, then an unconditional MERGE), `CommitBatch`
the engine's commit, `Crash`/`Restart` replay the logged batch. `Replica` is what a
reader of the table may rely on: it is empty or the image of the source at some
offsets, for all keys at once, and changes only by moving to later offsets. The stream
implements it through `Reached`: the table has reached the logged offsets as soon as
its rows are their image, which is before the engine records the commit. `ts_ms` is a
clock of milliseconds and may stand still between two changes of a row: the MERGE then
takes any of them, and another one when the batch is run again, so "newest" means
everywhere that no change of the key is newer (`LatestOf`, `Images`). Parsing, the
choice of columns and OPTIMIZE are abstracted; events of an unsupported kind (`op =
"x"`) are filtered as the parser does.

### GoldBuild

One process: `StartBuild`, `Expire` and `InsertVersions` (the two statements of
`apply_scd2`), `MergeProducts`, `ReadMaxDate`, `AppendFacts`; `Crash` kills it between
any two. `now` is the build's number. SQL's `<>` is `Changed`: not true when either
side is NULL. Silver changes at any time, also during a build; `moved` holds the
customers that changed during the latest build, `torn` those that changed between its
two SCD statements. Only for the latter can the history be wrong (two current rows,
and then one new row for each that differs: `Joined`), and the properties say so;
everything else must hold for them too. Other columns, OPTIMIZE and the CREATE TABLE
statements are left out.

### BronzeToSilver

The cleaning job between Bronze and Silver. `silver` keeps per order the version shown
and its `_silver_load_ts`; `quarantine` is the set of versions reported.
`BeginAppend`, `CommitAppend` and `AbandonAppend` are the Bronze writer, left open
here: rows are stamped when the append starts and visible when it commits. The job is
`ReadWatermark` (:85), `CheckEmpty` (:95), `Split` (clean, deduplicate, validate,
persist), `Merge` (:134-142, which stamps what it changes), `WriteQuarantine` (:145),
and `Kill`. A version's fields are reduced to its order, its `updated_at` and whether
it passes validation once parsed; trimming and casting have no other effect on the
properties. The persisted batch is assumed not to be lost.

`late`, `unreported` and `seen` are history variables, needed because the code
has two gaps the properties must name: the watermark is the newest
`_silver_load_ts`, so a row that arrives while the job runs, with a stamp at or
below that of the job's own MERGE, is never read (`late`); and a kill after
the MERGE loses the rejects, since the watermark has moved (`unreported`). The
properties exempt exactly those rows and say that everything else is served or
reported. A third consequence needs no exemption: an invalid version hides a valid
older one, and `NothingHiddenSilently` says that a report then names it.

### DailyPipeline

The first tasks of `daily_batch_pipeline`: WatermarkIngestion and BronzeToSilver
joined at the Bronze table of the sales orders. The writer that BronzeToSilver leaves
open is the ingestion: `BeginWrite` stamps the append (`current_timestamp()`), and
`Write`, or an exception after the commit (`FailIngest`), makes visible what was fetched.
The other actions are those of the two modules, under the schedule of
`databricks.yml`: `task` says whose turn it is; `EndIngest` hands over to the cleaning
only after a run recorded as SUCCESS, and not even then if another table of the
source, or the quality check on Bronze, fails; a failed or killed task is retried or
left for the next day. A version is a row with its `updated_at`; Spark keeps
microseconds of it (`UpdatedAt`), the source's ticks may be finer.

`PipelineAssumption` ties the constants of the two together and takes one ingestion
process, so that a driver is dead before its retry starts. The one thing about time
that is assumed is in `BeginWrite`: an append is stamped later than the cleaning
before it, since at least the start of a task lies between the two. `served` is a
history variable: the start times of the successful runs that a finished cleaning
followed. As for WatermarkIngestion, records may be merged or refused at the end; as
written they are always refused, the task raises, and the cleaning is never reached
(section 4).

`EverySuccessIsServed` is what neither part can say alone. The ingestion promises
that a current version is in Bronze, the cleaning that what its watermark has passed
is accounted for, except rows that arrive too late; `NothingOvertaken` says that under
the schedule there are none.

### GdprErasure

`keyed`, `plain`, `recent`, `aged` are sets of subjects per table: whose rows are
found by the subject key, whose personal columns are in clear, and who is in clear
in files no longer part of the table, younger or older than the retention period.
The agent's walk (`subject`, `at`, `pc`) has one action per statement on a table:
`Check` (SKIP, missing table, legal basis, dry run), `Count`, `Erase`, `Vacuum`,
`Fail` (the `except`, also after a statement whose commit went through), then
`WriteLog`, which appends all actions or, where no action fills a column that
`createDataFrame` must infer (`Inferable`: none BLOCKED, or none FAILED), fails the
job; `Crash` is a killed job, which is not retried. `Overrides` is the SQL
predicate of `_check_legal_basis` with its precedence. Beside it run `BeginCopy`
and `EndCopy` (any pipeline: its batch is read first and written later; which rows
it reads is left open), `Ingest`, `RegisterBasis`, `ExpireBasis`, `Age`, and
`SweepTable`, the loop of `run_maintenance` (`lakehouse_monitor.py:245`).
`Feeds` is any set of table pairs, the DQ agent's copies from Silver back to
`bronze.quarantine` (`dq_remediation_agent.py:343-362`) among them; since the registry
lists the quarantine before Silver, a table that is listed later than the one it feeds
is one of the ways back that `Excused` names (`Before`). The rows that agent deletes in
Silver afterwards are left out, as a deletion brings nobody back. `Unkeyed` are the
tables whose DDL lacks the column the registry names as key: the count on them raises.
`cleared`, `purged`, `overtaken`, `returned`, `fresh`, `blind`, `erasures` and
`killed` are history. Hash values and row counts are left out.

### DqRemediation

One table and its checked column. `table` gives each row its number or NULL, or where
it went (`Absent`: never there, `Gone`: removed by the agent). An answer of the model
carries its own constant and its own bounds, each possibly missing, as `_call_llm`
returns them and lines 549-551 take them: nothing relates the two bounds, or the
bounds of two answers. The agent takes the loaded clusters one by one (`Load`,
`Decide`; the model's answer is any of `Decisions`) and runs its strategy one Delta
statement at a time: `ReadFill`, `Count`, `Write`, `Recount` for imputing, coercing
and deduplicating, `AppendBad` and `Delete` for quarantining. `Fail` is any of them
raising, having committed or not; `Skip` their early returns; `WriteLog` the single
append at the end, refused where `Inferable` is false, as in the erasure agent;
`Crash` a lost or timed-out job. `PipelineWrites` inserts, updates or redelivers a row
at any time. `changes`, `disturbed`, `turned`, `settled` (the decisions carried out
since a pipeline wrote, and not undone by another's value) and `unlogged` are history.
Prompts, several tables and float parsing are abstracted (a bound that does not parse
fails the cluster with the fields before it set, `DecideFails`). A cluster without
column (a table-level check) makes every statement that names the column raise; a
constant that is missing and bounds that are missing are found before (`NeedsColumn`).
That the checked column is not `order_id` itself, whose imputation would change the
deduplication's key (`silver_dq_config.yaml:17`), is an assumption of the model.

### PagedIngestion

The REST and OData jobs over one external list of records. `source` is the job's
configuration, chosen once: whose code, how it pages, what the API sorts by, whether
a watermark parameter and a watermark column are configured. Actions: `Start`,
`OffsetPage` (`_paginate_offset_limit`), `LinkedPage` (cursor and Link header),
`ODataPage` (next links, or `$skip` after a full page), `RejectFilter` (an
incremental OData run without a success: `get_last_watermark(..., None)` yields the
string 'None', and `$filter=... gt None` is refused), `AppendToBronze`, `Fail`,
`EndRun`, `LoseCluster`. `Change` and `Withdraw` are the API's clients: a change moves a
record to the end of a list sorted by time, a withdrawal shifts all that follow.
The list is not kept as a sequence: a record's place is its `Rank`, the number of
records up to its `SortKey`, and a page is a range of ranks. Two records never
change at the same moment, so that a list sorted by time has one order.

`raced` and `shifted` name, for the properties, what a fetch may miss. `raced` are
the versions that appeared after its first page and before its append. `shifted` are
those a fetch by offsets cannot see: the record moved across the boundary of
the next page when one of an earlier page left its place (`Skipped`), and a version
that lands behind the fetch, at the end of a list sorted by time that has shrunk
since the offset was taken (`LandsBehind`). The second case needs a full last page, the
withdrawal or change of a record, and a further record whose newer version lifts the
watermark past the lost one. Definitions and variables have names of their own
(`ApiSpec`, `landed`, `step`), because one module of proofs extends CdcMerge too.

`PageSize` is what the job asks
for; a server that cuts pages shorter would end an offset fetch at its first page,
and is not modelled. Tokens, the CSRF handshake and HTTP retries are part of "a
request raises".

### NlToSql

Threads of the API process inside the two handlers of `create_nl_router`. `Check`
and `Use` are the two halves of `_get_agent`, which holds no lock; `Lookup`,
`Fetch`, `Store` are `_build_schema_context` for a new agent (`Publish`) or a refresh
(`Clear` ... `Refreshed`); `Ask`, `Execute`, `Audit` are `query`. An agent is named by
the thread that made it, a context by the version of the catalog it was read at, or
`Fallback`. The flush runs beside them: `FlushFrame` (`createDataFrame`, refused when
no entry has an error), `FlushWrite`, `FlushClear`, `FlushRaises`; `Restart` is the
process's end. A statement is its first word, whether it holds a forbidden keyword,
and its schemas; `Valid` is `_validate_sql`. `overtaken`, `passed`, `since`, `floor`,
`executed`, `adrift` and `raised` are history. Routing, tokens and rate limits are
FastAPI's; that its handlers resolve their locally defined request classes is
assumed.

## 3. Runs

Passing runs exhaust their state spaces.

| Run | Question | Instance, and why it is enough |
|---|---|---|
| OrchestratorSingle | does the deployed single runner keep queue and log consistent and implement `EventQueue`? | 4 events of different kinds (retraining, too-long payload, unknown type, not JSON), batch 2, 2 kills: batches smaller than the queue, a kill at every statement and one more during recovery |
| OrchestratorOverlap | what holds when cycles overlap; does everything settle? | 2 runners, 2 events, batch 1, 1 kill, with fairness |
| WatermarkReload | do overlapping jobs, one a `full_refresh`, with blocks recomputed and stamps finer than the watermark, skip anything? | 2 rows in 2 partitions, 2 jobs, 3 runs, 1 failure, clock to 3, lag 1, `Tick = 2`, executor loss, records merged or refused: a run during another, and one after both |
| WatermarkRecord (violation) | is the record of a finished run closed? | 1 job, no failure, records refused, as the schema makes them |
| CdcImage | is Bronze the image of a batch boundary, never going back, finally current; does it implement `Replica`? | 2 keys, a partition each, 3 events (create, update, delete or create again), also with equal `ts_ms`, batch limit 2, 2 crashes, with fairness |
| GoldHistory | are history, facts and keys consistent, whatever Silver does and after killed builds? | 1 customer with 2 values, NULL or absent; 3 order lines on 2 dates; 3 builds, 1 kill: a change torn by the first build and met again by the next two |
| SilverClean | is the newest version served or reported, and nothing hidden in silence, when Bronze repeats and reorders versions? | 2 valid versions and a newer invalid one of one order, and one of another; 3 appends of 1 or 2 rows (`Extracts`); 1 kill |
| DailyServed | does what a successful ingestion read get to Silver, whatever fails in between; when can Bronze hold a version twice; does a row fall between the two watermarks? | 2 rows in 2 partitions, clock to 3, lag 1, `Tick = 1`, one moment's versions invalid; 3 runs, records merged or refused; 1 failure or lost cluster, 1 killed cleaning: a run after a failed one, and a cleaning after a killed one |
| GdprErase | do erased rows and files stay away, is the log truthful, is the legal basis respected, are left-over files purged? | 2 subjects in 5 tables: Bronze, the quarantine the DQ agent fills from Silver (listed before Silver, without the key), Silver, Gold, and a skipped table; 2 requests, 1 failure or kill, 1 copy or delivery, bases of one subject; with fairness |
| DqRemediate | does a row vanish, is the log true, do repeats change anything? | 2 rows of one order, each with one of 3 numbers or NULL; 3 clusters, one without a column, in 2 windows; 2 runs, 1 write by a pipeline, 1 failure or kill; 8 answers, three of them ranges that agree, disagree or are inverted |
| ApiPages | what can a fetch and the watermark miss, and does every run end? | 2 records and room for a third, pages of 2, 7 configurations; 3 changes or withdrawals, 1 failure or kill, records merged or refused; with fairness of a run's own steps: a full page, a move behind the offset and a newer record that passes it |
| NlAgent | does a refresh take effect; is what was executed audited, once? | 2 threads, 3 requests, 1 change of the catalog, 2 flushes, 1 failure or restart |

In GoldHistory a second customer would add nothing to histories, which are per
customer, and makes three builds too many states; facts of two customers meet only
in the date watermark, which the three order lines exercise.

`CHECK_DEADLOCK` is on except in DqRemediate and NlAgent, where runs, writes, requests
and flushes are all bounded and the system then stops. `Idle` in WatermarkIngestion
and DailyPipeline and `EmptyTrigger` in CdcMerge are the stuttering of a schedule with
nothing to do; bounds are guards on the counters named `Max...`.

### Fairness

* `Orchestrator!FairSpec`: weak fairness of each runner's own steps. The 15-minute
  schedule restarts an idle runner and a running cycle goes on until it ends.
  Kills and raising events are not fair. `EveryEventSettles` is conditional on no
  kill and no malformed payload: with a kill an event stays IN_PROGRESS for
  ever, and a malformed payload stops every cycle at the same row (section 4).
* `CdcMerge!FairSpec`: weak fairness of the stream, which runs continuously and
  is restarted without limit. The number of crashes is bounded; a query that
  crashes on every batch progresses no further than its logged batch.
* `GdprErasure!FairSpec`: weak fairness of the weekly maintenance loop and of time
  (`Age`); failures of the loop are bounded. Requests are not fair.
* `PagedIngestion!ApiSpec`: weak fairness of `RunStep`, the steps of a run under way.
  Nothing is assumed of when a run starts: no job runs the REST ingestion, and the
  only OData job is incremental. Changes, failures and kills are not fair; whether a
  record is merged or refused is left open even to fairness.

SilverClean and DailyServed check no liveness: the cleaning runs only after ingestion
and quality check have succeeded, which nothing makes them do.

In GdprErase one copy is enough for a counterexample where Silver or Gold were erased
before the table they are computed from; longer chains of copies are covered by the
theorem, not by the run.

Several hazards are as bad as they look, because the code has no defence against them.
The properties then except exactly the case the code loses, by a history variable that
names it, and say that nothing else goes wrong: `raced` (a commit behind the watermark),
`torn` (Silver changed between the SCD statements), `late`, `unreported` (a kill before
the quarantine write), `killed` and `unlogged` (a lost log), `fresh` (a basis registered
after the check), `turned` (a row gone bad before the DELETE), `overtaken`, `adrift`,
`raised`, `shifted`. The notes of `hazards` in `PROJECT.json` say so at each line, and
two hazards have no property at all: a key on two partitions of the CDC feed, and NULLs
in tracked columns.

## 4. Disagreements with the documentation

**WatermarkRecord** is a counterexample to `end_run`'s docstring
(`metadata_logger.py:126-128`, "Updates the metadata record with final status and row
counts. Uses Delta MERGE to update the existing RUNNING record"): its row has None in
`source_id` and `run_start_ts`, which the schema it passes declares not nullable, so
`createDataFrame` raises (:140) and every run stays RUNNING.

The models follow the code in these points too, and the properties name or exempt
what results:

* `json.loads` at `orchestrator_agent.py:741` is outside every `try`: a malformed row
  ends each cycle, stays PENDING and heads the next batch (`ParseFailure`;
  `EveryEventSettles` assumes no such row).
* `OR` binds weaker than `AND` in the WHERE clause of `_check_legal_basis` (:384-386):
  a basis registered for one customer with a table pattern blocks the erasure of
  every customer there (`Overrides`).
* `apply_scd2` reads Silver twice; a change in between leaves two current rows
  (`torn`).
* Three logs are appended through `createDataFrame` without a schema, which refuses a
  column that is None in every row: the erasure log (:231) unless some action is
  BLOCKED and some FAILED, the remediation log (`dq_remediation_agent.py:409`) unless
  actions fill `column_name`, `impute_value`, both bounds and `error_message`, and the
  NL audit log (:440) unless some query failed. "Every erasure is logged" is thus
  true only of such requests (`Inferable`).
* The SAP job never gets past `$filter=... gt None`: its first run has no watermark,
  which becomes the string 'None' (`RejectFilter`).
* With no watermark column the REST watermark is the time after the append, so what
  changed during the fetch is below it (`Passed`).
* A refresh of the schema can be undone by a thread that read the old rows before
  (`overtaken`).

Seen while modelling and not run: `_finalise` updates the status before it logs, so a
kill in between leaves an unlogged verdict (the docstring names the other order); the
claim has no condition on the status, so two overlapping cycles both handle and log a
row; the rule-based fallback does not apply the planner's escalation rules (:253-254);
the events table, created "with appendOnly=true" (:183), is updated; two CDC changes
with one `ts_ms` in a batch tie arbitrarily; only the newest change per key and batch
reaches Bronze ("full CDC history"); a tracked column set to or from NULL is never
versioned by `apply_scd2`; `cdc_sql_sales`, the source of the CDC job
(`databricks.yml:319`), has no YAML in `configs/sources`; the Gold tasks of
`databricks.yml:165-226` pass `--table`, which the script's argument parser rejects;
no job runs CDF propagation.

CdcMerge chooses the newest event per micro-batch and its MERGE does not compare with
the row it replaces ("latest event wins", :228): true while Debezium keeps a key in
one partition, which CdcImage assumes, and up to changes of one millisecond. A stream
started for the first time begins at `@latest` (:91): earlier changes are never read.

In the erasure agent: the log is written after all erasures, although the module
says "logged BEFORE execution" (:21); any exception of the legal basis query permits
the erasure (:391); an own basis without table pattern blocks even when expired;
VACUUM with the deployed 168 h removes nothing of the erasure just made, and the
maintenance list has no customers table, so files there stay until a later erasure;
after a DELETE whose VACUUM failed, the repeated request finds no rows and never
vacuums; the registry's `silver.silver_customers` is not the `silver.sales_customers`
that feeds `dim_customer`, so builds bring the name back; `dim_customer` has no
`address` and `fact_sales` no `customer_id` column, so their statements fail;
`bronze.quarantine` has none either (`quarantine_handler.py:17-36`), although the
registry's comment says "entire row deleted" (:82): an erasure never reaches the rows
quarantined there (`Unkeyed`).

In the other agents and jobs: `odata_ingestion.py:325` passes `end_run` its last
arguments shifted by one, and :276 closes an empty run that the `finally` closes
again; the REST sample configuration uses other keys than the job reads;
`orchestrator_agent.py:357` imports `run_remediation_cycle`, which the remediation
agent does not define; the remediation agent's docstring promises to run the checks
again, which no code does; `save_results` of `dq_checks.py` (:271-277) has the same
schema inference as above.

In the cleaning job: rows ingested during a run can be overtaken by its
`_silver_load_ts`; rejects are written after the MERGE, so a kill in between loses
them; the batch is deduplicated (:116) before it is validated, so an invalid newest
version hides a valid older one; rejects with a NULL order id collapse to one; a
batch of rejects alone does not move the watermark and is reported at each run.

## 5. Proofs

All by TLAPS, for any constants satisfying the ASSUMEs.

**OrchestratorProofs.** `TypeCorrect` proves `TypeOK` with `CurOK` (inside an
event, the runner has one). `AtMostOneEffect` needs to know that a row a runner
took never re-enters a batch of its own: `EffectInv` says that an event with an
effect of `r`, or in `r`'s hands, is not PENDING and not in `todo[r]`
(`Handling`, `Unhandled`, `Fresh`). It holds for any number of runners because a
status never returns to PENDING. `VerdictsAreAudited` is inductive once the
runner about to log is named. The single-runner theorems use `SoleInv`: with one
runner every IN_PROGRESS event is the current one or abandoned, a log row exists
only for a final event, and the event in hand has none. They give
`SoleRunnerLogsOnce`, `SoleRunnerTablesAgree`, `SoleRunnerVerdictIsFinal`, and,
action by action, the refinement `SoleRunnerImplementsQueue`.

**WatermarkProofs.** `TypeCorrect` includes `OwnRun`: an active job owns a
RUNNING record no other job owns. `NothingSkipped` and `SuccessMeansComplete`
follow from `SettleInv`: nothing is stamped in the future (`InThePast`); every
SUCCESS record has *settled*, that is, each current version at or below its
watermark or its start is in Bronze or raced; and each job carries the same
promise for the versions above its base, in the form its `pc` allows (in a
partition still to read, in what was fetched, or in Bronze). It is needed because
the watermark of one run is the base of the next: completeness of a run is only
relative to its base. `DuplicatesNeedFailure` assumes `Deployment` (one job,
incremental, no lost executor, whole stamps) and uses `CopyInv`: what a run
appends lies strictly above its base and at or below its watermark, so successful
runs append disjoint intervals.

**GdprProofs.** `Erased` is proved from `SafeInv`. Its core is `WalkInv`: for the
subject in hand only tables before the agent's position are cleared, and none for
the subjects to come. It is needed because clearing a table takes away the
excuse "fed from a table not cleared": but only from tables after it, since those
before keep the excuse that it is listed later (`ExcusesLast`). Nothing is assumed of
the registry's order or of which tables feed which. A copy that lands in a cleared table
either comes from an uncleared one or is overtaken. `Purged` adds that a table is
purged only once cleared. `BasisIsRespected` uses `BasisInv`: between check and
erasure only a newly registered basis of the subject can be in force.

**DqProofs.** `TypeCorrect` includes that inside a strategy the cluster and the
decision are known. `NothingVanishes` is `NoRowVanishes` for any rows, orders, answers
and pipelines. It is not inductive as it stands: between append and DELETE nothing
in the table says which NULL rows were appended. `SavedFirst` adds that at the
DELETE every NULL row is in quarantine or went bad since; a row that `Write` removes
has a newer one of its order that stays, and what later happens to that one is
covered by the same property (`NothingTaken`).

`RepeatsAreIdle` says what a settled decision leaves behind (`NothingToDo`: no NULLs
or nothing to fill them with, no row beyond its bounds, one row per order) and that no
other strategy brings it back (`ImputeKeeps`, `CoerceKeeps`, `LessKeeps`), except a
value put out of the bounds of a coercion, which takes that one out of `settled`
(`UnopposedKeeps`). The bounds of each answer are arbitrary; only a minimum above its
own maximum is excepted (`ClippedInBounds` needs them in order); between `ReadFill`
and its UPDATE a settled imputation has no NULLs (`AtItsStep`).

DqProofs and GdprProofs also prove their `LogIsTrue`, by the same argument (`LogInv`): log
entries and changes carry the number of a run that has begun, and no entry that of the
one under way (`Numbered`); what a run has reported or changed is behind its position
(`LeftBehind`), so that nothing is done under an entry already written; what it changed
is reported or in hand (`Reported`, and `InHand` in DqProofs); and no entry of its report
says otherwise (`Truthful`).

**NlProofs.** Three invariants beside the types. `AuditInv` ties the buffer to the
running flush: what it holds and the flush did not take was added meanwhile
(`FlushKnows`). `OnceInv` adds that numbers of questions are not reused, that an entry
is of a question that has ended, and that what is still to be written was written
before only by a flush that raised (`Pending`); hence two threads' entries and two
flushes cannot meet. `FreshInv` says that while nobody overtook, every context in the
cache, in a thread's hands or in an agent is as new as the last finished refresh
and as any refresh past its clear; it holds for any number of threads.

**GoldProofs.** The dimension needs dates: until the build writes, its time is later
than every time in `dim` (`Dated`), so that a version it ends ends no later than the
one it begins (`HistoriesFollow`). Between the two statements no current row differs
from Silver but for customers that changed since (`AllExpired`), and from the second
on they are `Refreshed`, which is `DimensionsAreReady`. For the facts (`FactInv`), the
date read by the driver is the newest one loaded at the append (`Loaded`); the orders
appended are newer than any fact, so none is there yet (`FactsAreOnce`) and none is
passed over (`OrdersAreLoaded`). `KeysResolve` follows because no version is ever
removed and a current one has no end.

**IngestionProofs**, first part (CdcMerge). `LatestWins` and `NoStepBack` assume
`Deployment`: each key on one lane. Timestamps may be equal. Offsets stay ordered and
within the feed (`OffsetInv`), and Bronze shows, per key, the newest event up to the
committed or up to the logged offsets (`ImageInv`): a replayed batch sees Bronze as it
was before it or after it, and an event of a key that none in the batch is newer than
is so on that key's whole lane, in both cases. `ReplicaImplemented` goes through the
actions: a MERGE advances the replica, unless the rows are those already (the batch is
run again; of changes with one time it may then choose another, which is an advance to
the same offsets); planning a batch advances it only when the batch changes no row
(schema events); a crash, restart or commit leaves it.

**IngestionProofs**, second part (PagedIngestion). `NothingSkipped` and
`FetchComplete` hold for any records, configurations, page sizes and endings. Both
follow from one inductive invariant. `BehindIsFetched`: while a fetch is under way,
each listed record whose rank is at or below the position of the next page is fetched,
raced or shifted. `NoGapInTime`: where the list is sorted by time, a fetch by a
watermark column leaves out nothing older than the newest version it holds.
`VerdictIsSettled`: the watermark of a successful run, not yet recorded, already
satisfies what `NoRecordSkipped` says of the recorded one. They are needed because a
watermark is a promise about all versions below it, while each page only knows its own
range of ranks, and the ranks of all records move whenever one changes. The lemmas
beneath are about ranks: the ranks of the listed records are exactly 1 to their number
(`RanksAreTaken`), so a page that is not full is the last (`ShortPageIsLast`); a
withdrawal or a change lowers a rank by at most one (`WithdrawMovesOne`,
`ChangeMovesOne`), so a boundary is crossed by one record only.

Preparing this proof showed that `NoRecordSkipped` needed the second kind of
`shifted`: with the first alone it is false, which the bounds used before were too
small to show.

**PipelineProofs**, first part (BronzeToSilver). The core is `NothingHiddenSilently`
itself, made inductive: rows of Silver are valid, from Bronze and stamped in the past
(`RowsOK`); what is reported or in hand came from Bronze (`FromBronze`); until its
MERGE a run's watermark is Silver's and its batch is the deduplication of the rows it
saw above it, and after it every row it saw is accounted for (`JobOK`). Then the
MERGE's new stamp passes only rows that were below the old watermark, rows the run
saw, or rows it makes late. `LatestServed` and `RejectsReported` follow, since only
the newest version accounts for itself.

**PipelineProofs**, second part (DailyPipeline). Every step of the pipeline is a step
of each part or leaves it alone (`PartsStep`): so `PipelineImplementsParts`, and the
theorems about either part hold of the whole. This needs to know that what is fetched
are versions of the table (`FetchedOK`). The rest of the invariant is about the seam:
rows of the ingestion's Bronze are visible to the cleaning and none is newer than its
current version (`Linked`); the tasks take turns (`OneAtATime`); an append under way
is stamped later than all of Silver, and the cleaning has seen every row when it
merges (`Ahead`), which is `RowsStayAhead`. With it a finished cleaning accounts for
all that is visible (`CleaningServes`). `SuccessesAreServed` then joins the two
promises; it is kept by later commits because a new version is stamped later than any
finished run began, or has raced.

The type invariant of every module is proved. Each inductive invariant was
checked by TLC before it was proved.

Only model-checked: liveness, which is outside the prover's reach. No theorem depends on an
induction over data.

## 6. Plan and limits

Modelled, checked and proved, but for liveness: Orchestrator, WatermarkIngestion,
CdcMerge, GoldBuild, BronzeToSilver, GdprErasure, NlToSql, DqRemediation,
PagedIngestion, and the composition DailyPipeline. Next:

1. GoldBuild as the third task of DailyPipeline, which needs Silver's versions in
   place of its own free changes.
2. One contract ("nothing at or below a recorded watermark is missing") that
   WatermarkIngestion and PagedIngestion both implement.

Not modelled because the code does not reach its own state changes: CDF propagation
(no job runs it; its `MERGE ... INSERT *` does not resolve against the tables the
repository creates, so a run with a change fails before the checkpoint), model
training (`mlflow.spark.autolog` has no `log_models` parameter) and batch inference
(it broadcasts a Spark PipelineModel, which cannot be pickled). A model of the
promotion or replay protocol would describe states the program is never in.

Not modelled for other reasons: declarative or engine-owned state (DLT, Autoloader,
streaming append, Terraform, governance DDL), numeric code (feature engineering,
drift statistics), read-only queries (Gold API), presentation and configuration.
